---- MODULE Spec2Model ----
(***************************************************************************)
(* Place service of workbrew-backend: the read-through cache in front of  *)
(* getPlaceById, the create / update / delete write path, and the geohash *)
(* proximity search getPlacesNearby, over the two storage back ends that  *)
(* utils/dynamodb.ts selects between (the in-memory LocalDatabase and     *)
(* DynamoDB).                                                              *)
(*                                                                         *)
(* Units.  Coordinates are integers in thousandths of a degree, distances *)
(* integers in hundredths of a kilometre (calculateDistance rounds to two *)
(* decimals), the search radius is in whole kilometres (the handler       *)
(* passes parseInt(radius)), and the clock is in milliseconds.            *)
(***************************************************************************)
EXTENDS Integers, Sequences, FiniteSets, TLC

VARIABLES
    useLocalDb,   \* dynamodb.ts: useLocalDb (NODE_ENV !== 'production')
    table,        \* the places table: its items, in insertion order
    cache,        \* placeService.ts: cache, keyed by place id
    now,          \* Date.now()
    nextId,       \* the next identifier uuidv4() hands out
    last,         \* the last completed call, its arguments and its outcome
    env,          \* process.env: the variables that are set
    secretsCache, \* secrets.ts: secretsCache, keyed by cache key
    sessions,     \* the sessions table of DynamoDB, keyed by sessionId
    calls,        \* the calls in flight: each one's position and local values
    challenges    \* authChallengeService.ts: challengeStore, keyed by challengeId

vars == <<useLocalDb, table, cache, now, nextId, last, env, secretsCache, sessions,
          calls, challenges>>

-----------------------------------------------------------------------------
(* Bounds of the model *)

MaxPlaces == 1        \* number of createPlace calls (identifiers 1..MaxPlaces)
TickStep == 30000     \* the clock advances in steps of this many ms
MaxTime == 60000      \* the clock stops here

SecretsTickStep == 450000    \* the clock step of the secrets specification, ms
SecretsMaxTicks == 3         \* that clock stops after this many steps

MaxSessions == 1             \* number of createSession calls
SessionTickStep == 450000    \* the short clock step of the session specification, ms
SessionMaxTicks == 3         \* number of short steps

MaxCallers == 2              \* number of overlapping calls

MaxChallenges == 1           \* number of challenges created
ChallengeTickStep == 200000  \* clock step of the challenge specification, ms
ChallengeMaxTicks == 2       \* number of steps

-----------------------------------------------------------------------------
(* Program constants *)

CACHE_TTL == 60000          \* placeService.ts: 60 * 1000
DEFAULT_PRECISION == 9      \* placeService.ts: encodeGeohash(..., precision = 9)
PREFIX_LENGTH == 4          \* localdb.ts: geohash.substring(0, 4)

CHALLENGE_EXPIRY_SECONDS == 300 \* authChallengeService.ts

SECRETS_CACHE_TTL == 900000 \* secrets.ts: CACHE_TTL = 15 * 60 * 1000

SESSION_DURATION == 86400000      \* sessionService.ts: 24 * 60 * 60 * 1000
CSRF_ROTATION_INTERVAL == 900000  \* sessionService.ts: 15 * 60 * 1000

StartTime == 1000           \* Date.now() when the process starts: positive

Null == [null |-> TRUE]             \* a null result
NoEntry == [undefined |-> TRUE]     \* Map.get on a missing key

BASE32 == << "0","1","2","3","4","5","6","7","8","9","b","c","d","e","f","g",
             "h","j","k","m","n","p","q","r","s","t","u","v","w","x","y","z" >>

LatRange == 180000    \* ngeohash: latitude runs over [-90, 90] degrees
LngRange == 360000    \* ngeohash: longitude runs over [-180, 180] degrees

-----------------------------------------------------------------------------
(* Small helpers *)

RECURSIVE Pow2(_)
Pow2(n) == IF n = 0 THEN 1 ELSE 2 * Pow2(n - 1)

Abs(x) == IF x < 0 THEN -x ELSE x

Max(a, b) == IF a >= b THEN a ELSE b

Has(r, f) == f \in DOMAIN r

\* The object spread { ...a, ...b }: b's fields over a's.
Spread(a, b) ==
    [f \in (DOMAIN a) \cup (DOMAIN b) |-> IF f \in DOMAIN b THEN b[f] ELSE a[f]]

\* obj.f = v on an object: the field is added or overwritten.
SetField(r, f, v) == [g \in (DOMAIN r) \cup {f} |-> IF g = f THEN v ELSE r[g]]

\* Array.prototype.flat() on an array of arrays.
RECURSIVE Flat(_)
Flat(ss) == IF ss = << >> THEN << >> ELSE Head(ss) \o Flat(Tail(ss))

\* String.prototype.substring(0, n).
Substring0(s, n) == IF n >= Len(s) THEN s ELSE SubSeq(s, 1, n)

\* begins_with(s, prefix)
BeginsWith(s, prefix) ==
    /\ Len(prefix) <= Len(s)
    /\ SubSeq(s, 1, Len(prefix)) = prefix

-----------------------------------------------------------------------------
(* Geohash codec (ngeohash, as called by placeService.ts).  A geohash is   *)
(* the sequence of its base-32 characters.                                 *)

\* The subdivision loop of encode.  yLat and yLng are the offsets of the
\* coordinate from the lower end of the current interval, scaled so that the
\* interval keeps its original width: "coordinate > mid" is 2 * y > width,
\* keeping the upper half turns y into 2 * y - width and keeping the lower
\* half turns it into 2 * y.  Longitude takes the even bits, latitude the odd
\* ones; every 5 bits one character is emitted.
RECURSIVE EncodeLoop(_, _, _, _, _, _, _)
EncodeLoop(yLat, yLng, bitsTotal, bits, hashValue, chars, precision) ==
    IF Len(chars) >= precision THEN chars
    ELSE
        LET isLng == bitsTotal % 2 = 0
            y == IF isLng THEN yLng ELSE yLat
            width == IF isLng THEN LngRange ELSE LatRange
            bit == IF 2 * y > width THEN 1 ELSE 0
            y2 == IF bit = 1 THEN 2 * y - width ELSE 2 * y
            hv == 2 * hashValue + bit
            nLat == IF isLng THEN yLat ELSE y2
            nLng == IF isLng THEN y2 ELSE yLng
        IN  IF bits + 1 = 5
            THEN EncodeLoop(nLat, nLng, bitsTotal + 1, 0, 0,
                            Append(chars, BASE32[hv + 1]), precision)
            ELSE EncodeLoop(nLat, nLng, bitsTotal + 1, bits + 1, hv,
                            chars, precision)

\* geohash.encode(lat, lng, precision)
geohashEncode(lat, lng, precision) ==
    EncodeLoop(lat + LatRange \div 2, lng + LngRange \div 2, 0, 0, 0, << >>, precision)

\* The subdivision loop of the hand-written encodeGeohash, in the offsets of
\* EncodeLoop.  Its latitude step is the one above.  Its longitude step
\* assigns minLng = mid in both branches, so the interval becomes its upper
\* half whichever way the test went: the offset from the new minLng is
\* 2 * y - width, and once that is not positive "lng > mid" stays false for
\* good (such an offset is kept as 0).
RECURSIVE HandWrittenLoop(_, _, _, _, _, _, _)
HandWrittenLoop(yLat, yLng, bitsTotal, bits, hashValue, chars, precision) ==
    IF Len(chars) >= precision THEN chars
    ELSE
        LET isLng == bitsTotal % 2 = 0
            y == IF isLng THEN yLng ELSE yLat
            width == IF isLng THEN LngRange ELSE LatRange
            bit == IF 2 * y > width THEN 1 ELSE 0
            hv == 2 * hashValue + bit
            nLat == IF isLng THEN yLat
                    ELSE IF bit = 1 THEN 2 * y - width ELSE 2 * y
            nLng == IF isLng THEN Max(2 * y - width, 0) ELSE yLng
        IN  IF bits + 1 = 5
            THEN HandWrittenLoop(nLat, nLng, bitsTotal + 1, 0, 0,
                                 Append(chars, BASE32[hv + 1]), precision)
            ELSE HandWrittenLoop(nLat, nLng, bitsTotal + 1, bits + 1, hv,
                                 chars, precision)

\* encodeGeohash(lat, lng, precision) of the hand-written variant.
encodeGeohashHandWritten(lat, lng, precision) ==
    HandWrittenLoop(lat + LatRange \div 2, lng + LngRange \div 2, 0, 0, 0, << >>, precision)

CharValue(c) == (CHOOSE i \in 1..32 : BASE32[i] = c) - 1

\* The bits of a geohash, most significant first.
HashBits(h) ==
    [i \in 1..(5 * Len(h)) |->
        (CharValue(h[((i - 1) \div 5) + 1]) \div Pow2(4 - ((i - 1) % 5))) % 2]

LngBitCount(h) == (5 * Len(h) + 1) \div 2
LatBitCount(h) == (5 * Len(h)) \div 2

\* The numbers the longitude bits (odd positions) and the latitude bits (even
\* positions) of a geohash spell: the column and the row of its cell.  The
\* bit at position i has (Len - i) \div step bits of its own kind after it.
RECURSIVE BitsValue(_, _, _)
BitsValue(bitSeq, i, step) ==
    IF i > Len(bitSeq) THEN 0
    ELSE bitSeq[i] * Pow2((Len(bitSeq) - i) \div step) + BitsValue(bitSeq, i + step, step)

LngCell(h) == BitsValue(HashBits(h), 1, 2)
LatCell(h) == BitsValue(HashBits(h), 2, 2)

\* The geohash of `len` characters of the cell in column lngCell, row latCell.
CellHash(lngCell, latCell, len) ==
    LET nLng == (5 * len + 1) \div 2
        nLat == (5 * len) \div 2
        bitAt(i) == IF i % 2 = 1
                    THEN (lngCell \div Pow2(nLng - (i + 1) \div 2)) % 2
                    ELSE (latCell \div Pow2(nLat - i \div 2)) % 2
        charAt(k) == BASE32[ 16 * bitAt(5 * k - 4) + 8 * bitAt(5 * k - 3)
                             + 4 * bitAt(5 * k - 2) + 2 * bitAt(5 * k - 1)
                             + bitAt(5 * k) + 1 ]
    IN  [k \in 1..len |-> charAt(k)]

\* geohash.neighbors: the cell one row / one column away, encoded at the same
\* length.  The longitude wraps at the +-180 seam, the latitude is clamped
\* at the poles.
encodeNeighbor(h, latDir, lngDir) ==
    LET cols == Pow2(LngBitCount(h))
        rows == Pow2(LatBitCount(h))
        col == (LngCell(h) + lngDir + cols) % cols
        r0 == LatCell(h) + latDir
        row == IF r0 < 0 THEN 0 ELSE IF r0 > rows - 1 THEN rows - 1 ELSE r0
    IN  CellHash(col, row, Len(h))

\* The (latitude, longitude) steps to n, ne, e, se, s, sw, w, nw: the order
\* in which geohash.neighbors lists the neighbours.
Directions ==
    << <<1, 0>>, <<1, 1>>, <<0, 1>>, <<-1, 1>>,
       <<-1, 0>>, <<-1, -1>>, <<0, -1>>, <<1, -1>> >>

geohashNeighbors(h) ==
    [d \in 1..Len(Directions) |-> encodeNeighbor(h, Directions[d][1], Directions[d][2])]

-----------------------------------------------------------------------------
(* The coordinates of the model *)

Point(lat, lng) == [latitude |-> lat, longitude |-> lng]

\* Locations of places: on the equator, 0.56 km and 3.34 km east of the
\* search centre.
Locations == { Point(0, 5), Point(0, 30) }

\* A location a place is moved to: on the equator, 45 degrees east, in
\* another cell at every precision.
FarLocations == { Point(0, 45000) }

SearchCentres == { Point(0, 0) }

\* A point in the northernmost row of cells.
PolarCentres == { Point(89999, 0) }

\* Search radii in km: 1, 5 and 30 select the precisions 7, 6 and 5; -1 is a
\* radius the handler lets through (parseInt('-1') is truthy).
SearchRadii == { -1, 1, 5, 30 }

-----------------------------------------------------------------------------
(* Geometry helpers of placeService.ts *)

\* geohashEncode on the points and at the precision the calls of the model
\* use (every call site leaves the precision at its default), evaluated
\* once.
EncodeMemo ==
    [pt \in Locations \cup FarLocations \cup SearchCentres \cup PolarCentres,
     precision \in { DEFAULT_PRECISION } |->
        geohashEncode(pt.latitude, pt.longitude, precision)] @@ << >>

\* encodeGeohash(lat, lng, precision = 9): geohash.encode.
encodeGeohash(lat, lng, precision) == EncodeMemo[Point(lat, lng), precision]

\* Math.cos(lat * Math.PI / 180), times 1000.  The search centres of the
\* model lie on the equator, where the cosine is exactly 1.
CosTimes1000(lat) == CASE lat = 0 -> 1000

\* The great-circle arc between two points, in thousandths of a degree, on
\* the two families of great circles where the haversine formula reduces to
\* the arc itself: a common meridian (dLon = 0, c = |dLat|) and the equator
\* (both latitudes 0, c = |dLon|, at most half a turn).
ArcBetween(lat1, lon1, lat2, lon2) ==
    CASE lon1 = lon2 -> Abs(lat2 - lat1)
      [] lon1 # lon2 /\ lat1 = 0 /\ lat2 = 0 ->
            IF Abs(lon2 - lon1) <= LngRange \div 2
            THEN Abs(lon2 - lon1)
            ELSE LngRange - Abs(lon2 - lon1)

\* Math.round(R * c * 100) / 100 with R = 6371: one thousandth of a degree of
\* arc is 6371 * pi / 180000 km = 11.119493 hundredths of a kilometre.
calculateDistance(lat1, lon1, lat2, lon2) ==
    LET arc == ArcBetween(lat1, lon1, lat2, lon2)
    IN  arc * 11 + (arc * 119493 + 500000) \div 1000000

\* latKm = 110.574, lngKm = 111.320 * cos(lat); the deltas in thousandths
\* of a degree.
calculateBoundingBox(lat, lng, radiusKm) ==
    LET lngKmTimes1000 == (111320 * CosTimes1000(lat)) \div 1000
        latDelta == (radiusKm * 1000000) \div 110574
        lngDelta == (radiusKm * 1000000) \div lngKmTimes1000
    IN  [minLat |-> lat - latDelta, maxLat |-> lat + latDelta,
         minLng |-> lng - lngDelta, maxLng |-> lng + lngDelta]

\* A precision table whose 0.5 degree threshold is inclusive.
calculateOptimalPrecision_Inclusive(boundingBox) ==
    LET latSpan == boundingBox.maxLat - boundingBox.minLat
        lngSpan == boundingBox.maxLng - boundingBox.minLng
        maxSpan == Max(latSpan, lngSpan)
    IN  IF maxSpan >= 10000 THEN 3
        ELSE IF maxSpan > 2500 THEN 4
        ELSE IF maxSpan >= 500 THEN 5
        ELSE IF maxSpan > 50 THEN 6
        ELSE 7

calculateOptimalPrecision(boundingBox) ==
    LET latSpan == boundingBox.maxLat - boundingBox.minLat
        lngSpan == boundingBox.maxLng - boundingBox.minLng
        maxSpan == Max(latSpan, lngSpan)
    IN  IF maxSpan >= 10000 THEN 3
        ELSE IF maxSpan > 2500 THEN 4
        ELSE IF maxSpan > 500 THEN 5
        ELSE IF maxSpan > 50 THEN 6
        ELSE 7

\* geohash.neighbors on the cells the searches of the model start from,
\* evaluated once.
NeighborsMemo ==
    [h \in { Substring0(EncodeMemo[c, DEFAULT_PRECISION], p) :
                c \in SearchCentres \cup PolarCentres, p \in 3..7 } |->
        geohashNeighbors(h)] @@ << >>

neighbors(h) == NeighborsMemo[h]

calculateNeighborGeohashes(centerGeohash, boundingBox) ==
    LET precision == calculateOptimalPrecision(boundingBox)
        truncatedHash == Substring0(centerGeohash, precision)
    IN  neighbors(truncatedHash) \o << truncatedHash >>


-----------------------------------------------------------------------------
(* Inputs of the model *)

\* Identifiers: 1..MaxPlaces are the identifiers uuidv4() hands out, in this
\* order, and the ones the calls of the model name; SampleIds are the
\* identifiers of the items the table holds before any call.
Ids == 1..MaxPlaces

SampleIds == { -1, 0 }

\* A geohash that is the encoding of no location of the model.
OtherGeohash == << "9", "q", "8", "y", "y", "k", "9", "p", "q" >>

\* The amenities and attributes of a new place.
NewAmenities == [wifi |-> TRUE, coffee |-> TRUE]

NewAttributes == [noiseLevel |-> "quiet"]

\* placeData of createPlace.
CreateData ==
    { [name |-> "cafe", location |-> l,
       amenities |-> NewAmenities, attributes |-> NewAttributes] : l \in Locations }
        \cup { [name |-> "cafe", location |-> Point(0, 5), geohash |-> OtherGeohash,
                amenities |-> NewAmenities, attributes |-> NewAttributes] }

\* placeData of updatePlace: a Partial<Place>.
UpdateData ==
    { [name |-> "bar", amenities |-> [wifi |-> FALSE]] }
        \cup { [location |-> l] : l \in Locations }
        \cup { [geohash |-> OtherGeohash] }
        \cup { [id |-> 0] }

\* The table before any call: what LocalDatabase.initializeWithSampleData
\* put there (putItem fills in geohash and geohashPrefix), or what earlier
\* createPlace calls and other writers left in the DynamoDB table.  The
\* store validates nothing: one item has no location.
SampleData ==
    << [id |-> -1, name |-> "sample"],
       [id |-> 0, name |-> "sample", location |-> Point(0, 30)] >>

\* Which of the 9 cell lookups of one search reject.
LookupFailures == { {}, {1}, {9}, {3, 5}, 1..9 }

\* A storage call can reject only against DynamoDB; LocalDatabase never does
\* for an item or a key that has an id.
FailChoices == IF useLocalDb THEN { FALSE } ELSE BOOLEAN

FailureSets == IF useLocalDb THEN { {} } ELSE LookupFailures

-----------------------------------------------------------------------------
(* Storage: utils/localdb.ts (LocalDatabase) and utils/dynamodb.ts *)

HasItem(t, id) == \E i \in 1..Len(t) : t[i].id = id

\* Map.get / GetCommand: the item, or null.
getItem(t, id) ==
    IF HasItem(t, id) THEN t[CHOOSE i \in 1..Len(t) : t[i].id = id] ELSE Null

\* Map.set / PutCommand: an existing key keeps its place, a new one goes last.
SetItem(t, item) ==
    IF HasItem(t, item.id)
    THEN [i \in 1..Len(t) |-> IF t[i].id = item.id THEN item ELSE t[i]]
    ELSE Append(t, item)

\* LocalDatabase.putItem fills in geohash and geohashPrefix on the caller's
\* item, each only if it is not already there.
LocalPutFill(item) ==
    IF Has(item, "location")
    THEN LET withHash ==
                 IF ~Has(item, "geohash")
                 THEN SetField(item, "geohash",
                               encodeGeohash(item.location.latitude,
                                             item.location.longitude,
                                             DEFAULT_PRECISION))
                 ELSE item
         IN  IF ~Has(withHash, "geohashPrefix")
             THEN SetField(withHash, "geohashPrefix",
                           Substring0(withHash.geohash, PREFIX_LENGTH))
             ELSE withHash
    ELSE item

\* putItem: the table afterwards and the caller's item afterwards.
putItem(t, item) ==
    IF useLocalDb
    THEN [table |-> SetItem(t, LocalPutFill(item)), item |-> LocalPutFill(item)]
    ELSE [table |-> SetItem(t, item), item |-> item]

\* Map.delete / DeleteCommand.
deleteItem(t, id) == SelectSeq(t, LAMBDA it : it.id # id)

\* scanItems: every item, in table order.
scanItems(t) == t

\* queryItems with 'begins_with(geohash, :prefix)': LocalDatabase ignores the
\* condition and scans; DynamoDB returns the items of the index whose geohash
\* begins with the prefix.
queryItems(t, prefix) ==
    IF useLocalDb
    THEN scanItems(t)
    ELSE SelectSeq(t, LAMBDA it : Has(it, "geohash") /\ BeginsWith(it.geohash, prefix))

\* The table after the sample data has been put.
InitialTable ==
    [i \in 1..Len(SampleData) |->
        IF useLocalDb
        THEN LocalPutFill(SampleData[i])
        ELSE IF Has(SampleData[i], "location")
        THEN SetField(SampleData[i], "geohash",
                      encodeGeohash(SampleData[i].location.latitude,
                                    SampleData[i].location.longitude,
                                    DEFAULT_PRECISION))
        ELSE SampleData[i]]

-----------------------------------------------------------------------------
(* models/place.ts *)

\* PlaceSchema.parse: name, location, amenities and attributes are required,
\* and attributes.noiseLevel within them (address, also required, is payload
\* the model leaves out).
PlaceSchemaValid(place) ==
    /\ Has(place, "name")
    /\ Has(place, "location")
    /\ Has(place, "amenities")
    /\ Has(place, "attributes")
    /\ Has(place.attributes, "noiseLevel")


-----------------------------------------------------------------------------
(* services/placeService.ts *)

Rejected(message) == [kind |-> "rejected", result |-> [message |-> message]]

\* A cache test that ignores the age of the entry.
cacheFresh_Ageless(cachedItem, t) ==
    cachedItem # NoEntry

\* The cache test of getPlaceById: an entry exists and is younger than the TTL.
cacheFresh(cachedItem, t) ==
    /\ cachedItem # NoEntry
    /\ t - cachedItem.timestamp < CACHE_TTL

\* A getPlaceById that also caches the outcome "absent".
getPlaceById_CachesAbsent(id, getFails) ==
    LET cachedItem == cache[id]
        item == getItem(table, id)
    IN  IF cacheFresh(cachedItem, now)
        THEN [kind |-> "ok", result |-> cachedItem.data, cache |-> cache, gets |-> 0]
        ELSE IF getFails
        THEN Rejected(<< "DynamoDB get failed" >>) @@ [cache |-> cache, gets |-> 1]
        ELSE [kind |-> "ok", result |-> item, gets |-> 1,
              cache |-> [cache EXCEPT ![id] = [data |-> item, timestamp |-> now]]]

\* getPlaceById(id): its outcome, the cache afterwards and the number of
\* storage gets it issued.  getFails: the storage get, if issued, rejects.
getPlaceById(id, getFails) ==
    LET cachedItem == cache[id]
        item == getItem(table, id)
    IN  IF cacheFresh(cachedItem, now)
        THEN [kind |-> "ok", result |-> cachedItem.data, cache |-> cache, gets |-> 0]
        ELSE IF getFails
        THEN Rejected(<< "DynamoDB get failed" >>) @@ [cache |-> cache, gets |-> 1]
        ELSE [kind |-> "ok", result |-> item, gets |-> 1,
              cache |-> IF item # Null
                        THEN [cache EXCEPT ![id] = [data |-> item, timestamp |-> now]]
                        ELSE cache]

\* createPlace(placeData): the new place gets a fresh id and the geohash of
\* its location, is validated and put.  (createdAt / updatedAt are payload
\* the model leaves out.)
createPlace(placeData, putFails) ==
    LET withId == Spread(placeData, [id |-> nextId])
        newPlace == IF Has(withId, "location")
                    THEN SetField(withId, "geohash",
                                  encodeGeohash(withId.location.latitude,
                                                withId.location.longitude,
                                                DEFAULT_PRECISION))
                    ELSE withId
        put == putItem(table, newPlace)
    IN  IF ~PlaceSchemaValid(newPlace)
        THEN Rejected(<< "ZodError" >>) @@ [table |-> table, written |-> Null]
        ELSE IF putFails
        THEN Rejected(<< "DynamoDB put failed" >>) @@ [table |-> table, written |-> Null]
        ELSE [kind |-> "ok", result |-> put.item, table |-> put.table,
              written |-> getItem(put.table, newPlace.id)]

\* obj.f inside a spread: the fields of obj.f, none if obj has no f.
FieldsOf(obj, f) == IF Has(obj, f) THEN obj[f] ELSE << >>

\* The place updatePlace builds from the existing one and the data: the data
\* spread over the existing place, the geohash recomputed if the data has a
\* location, then amenities and attributes each set to the data's spread
\* over the existing place's.
mergeUpdate(existingPlace, placeData) ==
    LET updatedPlace == Spread(existingPlace, placeData)
        withHash == IF Has(placeData, "location")
                    THEN SetField(updatedPlace, "geohash",
                                  encodeGeohash(updatedPlace.location.latitude,
                                                updatedPlace.location.longitude,
                                                DEFAULT_PRECISION))
                    ELSE updatedPlace
        withAmenities == SetField(withHash, "amenities",
                                  Spread(FieldsOf(existingPlace, "amenities"),
                                         FieldsOf(placeData, "amenities")))
    IN  SetField(withAmenities, "attributes",
                 Spread(FieldsOf(existingPlace, "attributes"),
                        FieldsOf(placeData, "attributes")))

\* updatePlace(id, placeData).
updatePlace(id, placeData, getFails, putFails) ==
    LET got == getPlaceById(id, getFails)
        updatedPlace == mergeUpdate(got.result, placeData)
        put == putItem(table, updatedPlace)
        none == [table |-> table, cache |-> got.cache, gets |-> got.gets, written |-> Null]
    IN  IF got.kind = "rejected"
        THEN Rejected(got.result.message) @@ none
        ELSE IF got.result = Null
        THEN [kind |-> "ok", result |-> Null] @@ none
        ELSE IF ~PlaceSchemaValid(updatedPlace)
        THEN Rejected(<< "ZodError" >>) @@ none
        ELSE IF putFails
        THEN Rejected(<< "DynamoDB put failed" >>) @@ none
        ELSE [kind |-> "ok", result |-> put.item, table |-> put.table,
              cache |-> got.cache, gets |-> got.gets,
              written |-> getItem(put.table, updatedPlace.id)]

\* deletePlace(id).
deletePlace(id, getFails, deleteFails) ==
    LET got == getPlaceById(id, getFails)
        none == [table |-> table, cache |-> got.cache, gets |-> got.gets]
    IN  IF got.kind = "rejected"
        THEN Rejected(got.result.message) @@ none
        ELSE IF got.result = Null
        THEN [kind |-> "ok", result |-> FALSE] @@ none
        ELSE IF deleteFails
        THEN Rejected(<< "DynamoDB delete failed" >>) @@ none
        ELSE [kind |-> "ok", result |-> TRUE, table |-> deleteItem(table, id),
              cache |-> got.cache, gets |-> got.gets]

\* Lookups combined as Promise.allSettled would: the rejected ones are
\* dropped and the values of the others are delivered.
PromiseAll_Settled(outcomes) ==
    [kind |-> "ok",
     result |-> LET fulfilled == SelectSeq(outcomes, LAMBDA o : o.kind = "ok")
                IN  [k \in 1..Len(fulfilled) |-> fulfilled[k].result]]

\* Promise.all over the lookups: it rejects as soon as one of them rejects,
\* and otherwise yields all the values, in order.
PromiseAll(outcomes) ==
    IF \E k \in 1..Len(outcomes) : outcomes[k].kind = "rejected"
    THEN outcomes[CHOOSE k \in 1..Len(outcomes) : outcomes[k].kind = "rejected"]
    ELSE [kind |-> "ok", result |-> [k \in 1..Len(outcomes) |-> outcomes[k].result]]

\* The body of the second-pass filter: the distance is computed and saved on
\* the place, if it has a location.
annotateDistance(place, lat, lng) ==
    IF Has(place, "location")
    THEN SetField(place, "distance",
                  calculateDistance(lat, lng, place.location.latitude,
                                    place.location.longitude))
    ELSE place

\* A second-pass filter that tests the location and not the distance.
keepNearby_AnyDistance(place, radiusKm) ==
    Has(place, "location")

\* The verdict of the second-pass filter on a place it has annotated.
keepNearby(place, radiusKm) ==
    /\ Has(place, "location")
    /\ place.distance <= radiusKm * 100

\* a.distance || 0
DistanceOrZero(place) == IF Has(place, "distance") THEN place.distance ELSE 0

\* Array.prototype.sort with (a, b) => (a.distance || 0) - (b.distance || 0):
\* a stable sort, ascending.
RECURSIVE InsertByDistance(_, _)
InsertByDistance(sorted, place) ==
    IF sorted = << >> THEN << place >>
    ELSE IF DistanceOrZero(place) < DistanceOrZero(sorted[Len(sorted)])
    THEN Append(InsertByDistance(SubSeq(sorted, 1, Len(sorted) - 1), place),
                sorted[Len(sorted)])
    ELSE Append(sorted, place)

RECURSIVE SortIn(_, _)
SortIn(sorted, rest) ==
    IF rest = << >> THEN sorted
    ELSE SortIn(InsertByDistance(sorted, Head(rest)), Tail(rest))

\* The filtered places left in the order the lookups returned them.
sortByDistance_Unsorted(places) == places

sortByDistance(places) == SortIn(<< >>, places)

\* getPlacesNearby(lat, lng, radiusKm).  failed: the lookups that reject;
\* lookups: the number of queryItems calls issued (map issues them all before
\* Promise.all awaits any).
\* The places the lookups of LocalDatabase return are the stored objects
\* themselves, so the filter's "place.distance = distance" writes into the
\* table; DynamoDB returns fresh objects.
getPlacesNearby(lat, lng, radiusKm, failed) ==
    LET centerGeohash == encodeGeohash(lat, lng, DEFAULT_PRECISION)
        boundingBox == calculateBoundingBox(lat, lng, radiusKm)
        geohashPrefixes == calculateNeighborGeohashes(centerGeohash, boundingBox)
        prefixQueries ==
            [k \in 1..Len(geohashPrefixes) |->
                IF k \in failed
                THEN Rejected(<< "DynamoDB query failed: ", "cause" >>)
                ELSE [kind |-> "ok", result |-> queryItems(table, geohashPrefixes[k])]]
        queryResults == PromiseAll(prefixQueries)
        results == Flat(queryResults.result)
        annotated == [k \in 1..Len(results) |-> annotateDistance(results[k], lat, lng)]
        nearbyPlaces == SelectSeq(annotated, LAMBDA place : keepNearby(place, radiusKm))
    IN  IF queryResults.kind = "rejected"
        THEN Rejected(<< "Failed to fetch nearby places: " >> \o queryResults.result.message)
                @@ [table |-> table, lookups |-> Len(prefixQueries)]
        ELSE [kind |-> "ok", result |-> sortByDistance(nearbyPlaces),
              lookups |-> Len(prefixQueries),
              table |-> IF useLocalDb
                        THEN [i \in 1..Len(table) |-> annotateDistance(table[i], lat, lng)]
                        ELSE table]

\* getAllPlaces().
getAllPlaces(scanFails) ==
    IF scanFails THEN Rejected(<< "DynamoDB scan failed" >>)
    ELSE [kind |-> "ok", result |-> scanItems(table)]

-----------------------------------------------------------------------------
(* The state machine: one action per call of the service *)

Init ==
    /\ useLocalDb \in BOOLEAN
    /\ table = InitialTable
    /\ cache = [id \in Ids |-> NoEntry]
    /\ now = 0
    /\ nextId = 1
    /\ last = [op |-> "init"]
    /\ env = [NODE_ENV |-> IF useLocalDb THEN "development" ELSE "production"]
    /\ secretsCache = << >>
    /\ sessions = << >>
    /\ calls = << >>
    /\ challenges = << >>

GetPlaceById ==
    \E id \in Ids, getFails \in FailChoices :
        LET r == getPlaceById(id, getFails)
        IN  /\ cache' = r.cache
            /\ last' = [op |-> "getPlaceById", id |-> id, kind |-> r.kind,
                        result |-> r.result, gets |-> r.gets]
            /\ UNCHANGED <<useLocalDb, table, now, nextId, env, secretsCache, sessions, calls, challenges>>

CreatePlace ==
    \E placeData \in CreateData, putFails \in FailChoices :
        LET r == createPlace(placeData, putFails)
        IN  /\ nextId <= MaxPlaces
            /\ table' = r.table
            /\ nextId' = nextId + 1
            /\ last' = [op |-> "createPlace", kind |-> r.kind,
                        result |-> r.result, written |-> r.written]
            /\ UNCHANGED <<useLocalDb, cache, now, env, secretsCache, sessions, calls, challenges>>

UpdatePlace ==
    \E id \in Ids, placeData \in UpdateData,
       getFails \in FailChoices, putFails \in FailChoices :
        LET r == updatePlace(id, placeData, getFails, putFails)
        IN  /\ table' = r.table
            /\ cache' = r.cache
            /\ last' = [op |-> "updatePlace", id |-> id, data |-> placeData,
                        kind |-> r.kind, result |-> r.result, gets |-> r.gets,
                        written |-> r.written]
            /\ UNCHANGED <<useLocalDb, now, nextId, env, secretsCache, sessions, calls, challenges>>

DeletePlace ==
    \E id \in Ids, getFails \in FailChoices, deleteFails \in FailChoices :
        LET r == deletePlace(id, getFails, deleteFails)
        IN  /\ table' = r.table
            /\ cache' = r.cache
            /\ last' = [op |-> "deletePlace", id |-> id, kind |-> r.kind,
                        result |-> r.result, gets |-> r.gets]
            /\ UNCHANGED <<useLocalDb, now, nextId, env, secretsCache, sessions, calls, challenges>>

GetPlacesNearby ==
    \E centre \in SearchCentres, radiusKm \in SearchRadii, failed \in FailureSets :
        LET r == getPlacesNearby(centre.latitude, centre.longitude, radiusKm, failed)
        IN  /\ table' = r.table
            /\ last' = [op |-> "getPlacesNearby", lat |-> centre.latitude,
                        lng |-> centre.longitude, radiusKm |-> radiusKm,
                        failed |-> failed, kind |-> r.kind, result |-> r.result,
                        lookups |-> r.lookups]
            /\ UNCHANGED <<useLocalDb, cache, now, nextId, env, secretsCache, sessions, calls, challenges>>

GetAllPlaces ==
    \E scanFails \in FailChoices :
        LET r == getAllPlaces(scanFails)
        IN  /\ last' = [op |-> "getAllPlaces", kind |-> r.kind, result |-> r.result]
            /\ UNCHANGED <<useLocalDb, table, cache, now, nextId, env, secretsCache, sessions, calls, challenges>>

\* Time passes between calls.
Tick ==
    /\ now + TickStep <= MaxTime
    /\ now' = now + TickStep
    /\ last' = [op |-> "tick"]
    /\ UNCHANGED <<useLocalDb, table, cache, nextId, env, secretsCache, sessions, calls, challenges>>

Next ==
    \/ GetPlaceById
    \/ CreatePlace
    \/ UpdatePlace
    \/ DeletePlace
    \/ GetPlacesNearby
    \/ GetAllPlaces
    \/ Tick

Spec == Init /\ [][Next]_vars


-----------------------------------------------------------------------------
(* The geometry functions applied to inputs of their own *)

\* Spans in thousandths of a degree, at and around the thresholds of
\* calculateOptimalPrecision.
Spans == { 0, 49, 50, 51, 100, 499, 500, 501, 1000, 2499, 2500, 2501,
           9999, 10000, 10001, 20000 }

\* Bounding boxes: every pair of a latitude span and a longitude span.
Boxes ==
    { [minLat |-> 0, maxLat |-> a, minLng |-> 0, maxLng |-> b] : a, b \in Spans }

\* Coordinates to encode: San Francisco, New York and London, to the
\* thousandth of a degree, and the locations of the model.
EncodePoints ==
    { Point(37775, -122419), Point(40713, -74006), Point(51507, -128) } \cup Locations

EncodePrecisions == { 1, 3, 5, 6, 9 }

\* The two encodeGeohash functions of the repository.
EncodeVariants == { "ngeohash", "handwritten" }

GeoInit ==
    /\ useLocalDb = FALSE
    /\ table = << >>
    /\ cache = [id \in Ids |-> NoEntry]
    /\ now = 0
    /\ nextId = 1
    /\ last = [op |-> "init"]
    /\ env = [NODE_ENV |-> "production"]
    /\ secretsCache = << >>
    /\ sessions = << >>
    /\ calls = << >>
    /\ challenges = << >>

CalculateOptimalPrecision ==
    \E boundingBox \in Boxes :
        /\ last' = [op |-> "calculateOptimalPrecision", boundingBox |-> boundingBox,
                    result |-> calculateOptimalPrecision(boundingBox)]
        /\ UNCHANGED <<useLocalDb, table, cache, now, nextId, env, secretsCache, sessions, calls, challenges>>

EncodeGeohash ==
    \E pt \in EncodePoints, precision \in EncodePrecisions, variant \in EncodeVariants :
        /\ last' = [op |-> "encodeGeohash", variant |-> variant,
                    lat |-> pt.latitude, lng |-> pt.longitude, precision |-> precision,
                    result |-> IF variant = "ngeohash"
                               THEN geohashEncode(pt.latitude, pt.longitude, precision)
                               ELSE encodeGeohashHandWritten(pt.latitude, pt.longitude,
                                                             precision)]
        /\ UNCHANGED <<useLocalDb, table, cache, now, nextId, env, secretsCache, sessions, calls, challenges>>

CalculateNeighborGeohashes ==
    \E pt \in SearchCentres \cup PolarCentres, boundingBox \in Boxes :
        LET centerGeohash == encodeGeohash(pt.latitude, pt.longitude, DEFAULT_PRECISION)
        IN  /\ last' = [op |-> "calculateNeighborGeohashes",
                        centerGeohash |-> centerGeohash, boundingBox |-> boundingBox,
                        result |-> calculateNeighborGeohashes(centerGeohash, boundingBox)]
            /\ UNCHANGED <<useLocalDb, table, cache, now, nextId, env, secretsCache,
                           sessions, calls, challenges>>

GeoNext ==
    \/ CalculateOptimalPrecision
    \/ EncodeGeohash
    \/ CalculateNeighborGeohashes

GeoSpec == GeoInit /\ [][GeoNext]_vars

-----------------------------------------------------------------------------
(* utils/secrets.ts *)

\* A secretKey that was not given (null), and the value undefined.
NoKey == ""

Undefined == "undefined"

SecretNames == { "WorkbruAppSecrets" }

SecretKeys == { NoKey, "CSRF_SECRET" }

\* What GetSecretValueCommand can answer: an error, a response without a
\* SecretString, or a SecretString that is a JSON object or is not JSON.
SecretStrings == { "{\"CSRF_SECRET\":\"s1\"}", "{\"CSRF_SECRET\":\"s2\"}", "plain" }

Responses ==
    { [error |-> "AccessDenied"], [SecretBinary |-> "b"] }
        \cup { [SecretString |-> str] : str \in SecretStrings }

\* JSON.parse on the strings of the model; a string outside the table is
\* not JSON and makes it throw.
JsonDocs ==
    ( "{\"CSRF_SECRET\":\"s1\"}" :> [CSRF_SECRET |-> "s1"] )
        @@ ( "{\"CSRF_SECRET\":\"s2\"}" :> [CSRF_SECRET |-> "s2"] )
        @@ ( "{}" :> << >> )

\* The environments a process can start in: development or production, the
\* variable CSRF_SECRET unset, set to the empty string, or set to a value.
Environments ==
    { [NODE_ENV |-> m] : m \in { "development", "production" } }
        \cup { [NODE_ENV |-> m, CSRF_SECRET |-> v] :
                  m \in { "development", "production" }, v \in { "", "from-env" } }

\* process.env[name] is truthy: the variable is set and not empty.
EnvTruthy(name) == Has(env, name) /\ env[name] # ""

\* The key under which getSecret caches.
cacheKeyOf(secretName, secretKey) ==
    IF secretKey # NoKey THEN secretName \o ":" \o secretKey ELSE secretName

\* A cache test that is never satisfied.
secretLive_Never(cachedKey, t) ==
    FALSE

\* The cache test of getSecret: an entry exists and is younger than the TTL.
secretLive(cachedKey, t) ==
    /\ cachedKey \in DOMAIN secretsCache
    /\ t - secretsCache[cachedKey].timestamp < SECRETS_CACHE_TTL

\* A catch block that never falls back to the environment.
secretFallback_AlwaysThrows(secretKey, errorMessage) ==
    [kind |-> "rejected", result |-> "Failed to retrieve secret: " \o errorMessage]

\* The catch block of getSecret.
secretFallback(secretKey, errorMessage) ==
    IF secretKey # NoKey /\ EnvTruthy(secretKey)
    THEN [kind |-> "ok", result |-> env[secretKey]]
    ELSE [kind |-> "rejected", result |-> "Failed to retrieve secret: " \o errorMessage]

\* getSecret(secretName, secretKey) when Secrets Manager, if asked, answers
\* with response: the outcome, the cache afterwards and the number of
\* requests sent.
getSecret(secretName, secretKey, response) ==
    LET cacheKey == cacheKeyOf(secretName, secretKey)
        secretString == IF Has(response, "SecretString") THEN response.SecretString
                        ELSE Undefined
        jsonText == IF secretString = Undefined \/ secretString = "" THEN "{}"
                    ELSE secretString
        secretValue == IF secretKey = NoKey THEN secretString
                       ELSE IF Has(JsonDocs[jsonText], secretKey)
                       THEN JsonDocs[jsonText][secretKey]
                       ELSE Undefined
        unchanged == [cache |-> secretsCache]
    IN  IF env.NODE_ENV # "production"
        THEN [kind |-> "ok", remoteCalls |-> 0,
              result |-> IF secretKey # NoKey /\ EnvTruthy(secretKey)
                         THEN env[secretKey]
                         ELSE "local-development-secret"] @@ unchanged
        ELSE IF secretLive(cacheKey, now)
        THEN [kind |-> "ok", remoteCalls |-> 0,
              result |-> secretsCache[cacheKey].value] @@ unchanged
        ELSE IF Has(response, "error")
        THEN secretFallback(secretKey, response.error)
                 @@ [remoteCalls |-> 1] @@ unchanged
        ELSE IF secretKey # NoKey /\ jsonText \notin DOMAIN JsonDocs
        THEN secretFallback(secretKey, "Unexpected token")
                 @@ [remoteCalls |-> 1] @@ unchanged
        ELSE [kind |-> "ok", remoteCalls |-> 1, result |-> secretValue,
              cache |-> (cacheKey :> [value |-> secretValue, timestamp |-> now])
                            @@ secretsCache]

SecretsInit ==
    /\ env \in Environments
    /\ secretsCache = << >>
    /\ now = StartTime
    /\ last = [op |-> "init"]
    /\ useLocalDb = (env.NODE_ENV # "production")
    /\ table = << >>
    /\ cache = [id \in Ids |-> NoEntry]
    /\ nextId = 1
    /\ sessions = << >>
    /\ calls = << >>
    /\ challenges = << >>

GetSecret ==
    \E secretName \in SecretNames, secretKey \in SecretKeys, response \in Responses :
        LET r == getSecret(secretName, secretKey, response)
        IN  /\ secretsCache' = r.cache
            /\ last' = [op |-> "getSecret", secretName |-> secretName,
                        secretKey |-> secretKey, kind |-> r.kind, result |-> r.result,
                        remoteCalls |-> r.remoteCalls,
                        response |-> IF r.remoteCalls = 1 THEN response ELSE << >>]
            /\ UNCHANGED <<useLocalDb, table, cache, now, nextId, env, sessions, calls, challenges>>

ClearSecretsCache ==
    /\ secretsCache' = << >>
    /\ last' = [op |-> "clearSecretsCache"]
    /\ UNCHANGED <<useLocalDb, table, cache, now, nextId, env, sessions, calls, challenges>>

\* Time passes between calls.
SecretsTick ==
    /\ now + SecretsTickStep <= StartTime + SecretsMaxTicks * SecretsTickStep
    /\ now' = now + SecretsTickStep
    /\ last' = [op |-> "tick"]
    /\ UNCHANGED <<useLocalDb, table, cache, nextId, env, secretsCache, sessions, calls, challenges>>

SecretsNext ==
    \/ GetSecret
    \/ ClearSecretsCache
    \/ SecretsTick

SecretsSpec == SecretsInit /\ [][SecretsNext]_vars

-----------------------------------------------------------------------------
(* services/sessionService.ts *)

SessionIds == 1..MaxSessions

\* The environments of the session specification: the storage mode follows
\* NODE_ENV, the variable CSRF_SECRET is unset or set.
SessionEnvironments ==
    { e \in Environments :
        /\ e.NODE_ENV = (IF useLocalDb THEN "development" ELSE "production")
        /\ Has(e, "CSRF_SECRET") => e.CSRF_SECRET # "" }

HasSession(ss, sessionId) == \E i \in 1..Len(ss) : ss[i].sessionId = sessionId

SessionOf(ss, sessionId) ==
    IF HasSession(ss, sessionId)
    THEN ss[CHOOSE i \in 1..Len(ss) : ss[i].sessionId = sessionId]
    ELSE Null

\* PutCommand: the item replaces the one with its key, or is added.
PutSession(ss, session) ==
    IF HasSession(ss, session.sessionId)
    THEN [i \in 1..Len(ss) |->
             IF ss[i].sessionId = session.sessionId THEN session ELSE ss[i]]
    ELSE Append(ss, session)

\* UpdateCommand with 'SET ...' on the key { sessionId }: the named
\* attributes are set on the item, which is created if it does not exist.
UpdateSession(ss, sessionId, values) ==
    IF HasSession(ss, sessionId)
    THEN [i \in 1..Len(ss) |->
             IF ss[i].sessionId = sessionId THEN Spread(ss[i], values) ELSE ss[i]]
    ELSE Append(ss, Spread([sessionId |-> sessionId], values))

\* A test that finds no session expired or invalid.
ExpiredOrInvalid_Never(session, t) ==
    FALSE

\* session.expiresAt < Date.now() || !session.isValid
ExpiredOrInvalid(session, t) ==
    \/ Has(session, "expiresAt") /\ session.expiresAt < t
    \/ ~(Has(session, "isValid") /\ session.isValid)

\* getCsrfSecret(): getSecret('WorkbruAppSecrets', 'CSRF_SECRET'), and the
\* environment variable or a default if that rejects.
getCsrfSecret(response) ==
    LET r == getSecret("WorkbruAppSecrets", "CSRF_SECRET", response)
    IN  [secret |-> IF r.kind = "ok" THEN r.result
                    ELSE IF EnvTruthy("CSRF_SECRET") THEN env.CSRF_SECRET
                    ELSE "default-csrf-secret",
         cache |-> r.cache]

\* hashPassword(`${sessionId}:${now}`, secret).substring(0, 32): the token is
\* kept as what it is a digest of.
CsrfTokenOf(sessionId, t, secret) == [sessionId |-> sessionId, at |-> t, secret |-> secret]

\* invalidateSession(sessionId): the sessions afterwards.  In local mode
\* updateItem does nothing; a rejected update is swallowed.
invalidateSession(ss, sessionId, updateFails) ==
    IF useLocalDb \/ updateFails THEN ss
    ELSE UpdateSession(ss, sessionId, [isValid |-> FALSE])

\* getSessionById(sessionId) on the session table ss: the session or null,
\* and the table afterwards.  LocalDatabase.getItem throws for a key without
\* id, a DynamoDB get can reject; both are caught and give null.
getSessionById(ss, sessionId, getFails, updateFails) ==
    LET session == SessionOf(ss, sessionId)
    IN  IF useLocalDb \/ getFails \/ session = Null
        THEN [result |-> Null, sessions |-> ss]
        ELSE IF ExpiredOrInvalid(session, now)
        THEN [result |-> Null,
              sessions |-> invalidateSession(ss, sessionId, updateFails)]
        ELSE [result |-> session, sessions |-> ss]

\* touchSession(sessionId): the table afterwards.  A rejected update is
\* swallowed.
touchSession(ss, sessionId, updateFails) ==
    IF useLocalDb \/ updateFails THEN ss
    ELSE UpdateSession(ss, sessionId, [lastActivityAt |-> now])

\* validateCsrfToken(sessionId, csrfToken): the verdict and the table
\* afterwards.
validateCsrfToken(ss, sessionId, csrfToken, getFails, updateFails) ==
    LET got == getSessionById(ss, sessionId, getFails, updateFails)
    IN  [result |-> got.result # Null /\ got.result.csrfToken = csrfToken,
         sessions |-> got.sessions]

\* createSession(...): the outcome, the sessions and the secrets cache
\* afterwards.  pbkdf2 throws on an undefined secret; LocalDatabase.putItem
\* throws for an item without id.
createSession(sessionId, response, putFails) ==
    LET got == getCsrfSecret(response)
        session == [sessionId |-> sessionId,
                    csrfToken |-> CsrfTokenOf(sessionId, now, got.secret),
                    expiresAt |-> now + SESSION_DURATION,
                    lastRotatedAt |-> now,
                    isValid |-> TRUE]
    IN  IF got.secret = Undefined \/ useLocalDb \/ putFails
        THEN [kind |-> "rejected", result |-> Null, sessions |-> sessions,
              cache |-> got.cache]
        ELSE [kind |-> "ok", result |-> session, sessions |-> PutSession(sessions, session),
              cache |-> got.cache]

\* A rotation test that is always satisfied.
rotationDue_Always(session, t) ==
    TRUE

\* The interval test of rotateCsrfToken: the token is rotated unless
\* lastRotatedAt is truthy and less than the interval ago.
rotationDue(session, t) ==
    ~(/\ Has(session, "lastRotatedAt")
      /\ session.lastRotatedAt # 0
      /\ t - session.lastRotatedAt < CSRF_ROTATION_INTERVAL)

\* rotateCsrfToken(sessionId) on the session table ss: the token returned or
\* null, the table and the secrets cache afterwards, and the number of
\* getCsrfSecret calls.
rotateCsrfToken(ss, sessionId, response, getFails, updateFails) ==
    LET got == getSessionById(ss, sessionId, getFails, updateFails)
        session == got.result
        fetched == getCsrfSecret(response)
        newCsrfToken == CsrfTokenOf(sessionId, now, fetched.secret)
    IN  IF session = Null
        THEN [result |-> Null, sessions |-> got.sessions, cache |-> secretsCache,
              fetches |-> 0]
        ELSE IF ~rotationDue(session, now)
        THEN [result |-> session.csrfToken, sessions |-> got.sessions,
              cache |-> secretsCache, fetches |-> 0]
        ELSE IF fetched.secret = Undefined \/ updateFails
        THEN [result |-> Null, sessions |-> got.sessions, cache |-> fetched.cache,
              fetches |-> 1]
        ELSE [result |-> newCsrfToken,
              sessions |-> IF useLocalDb THEN got.sessions
                           ELSE UpdateSession(got.sessions, sessionId,
                                              [csrfToken |-> newCsrfToken,
                                               lastRotatedAt |-> now]),
              cache |-> fetched.cache, fetches |-> 1]

SessionInit ==
    /\ useLocalDb \in BOOLEAN
    /\ env \in SessionEnvironments
    /\ secretsCache = << >>
    /\ sessions = << >>
    /\ calls = << >>
    /\ challenges = << >>
    /\ now = StartTime
    /\ nextId = 1
    /\ last = [op |-> "init"]
    /\ table = << >>
    /\ cache = [id \in Ids |-> NoEntry]

CreateSession ==
    \E response \in Responses, putFails \in FailChoices :
        LET r == createSession(nextId, response, putFails)
        IN  /\ nextId <= MaxSessions
            /\ nextId' = nextId + 1
            /\ sessions' = r.sessions
            /\ secretsCache' = r.cache
            /\ last' = [op |-> "createSession", kind |-> r.kind, result |-> r.result]
            /\ UNCHANGED <<useLocalDb, table, cache, now, env, calls, challenges>>

InvalidateSession ==
    \E sessionId \in SessionIds, updateFails \in FailChoices :
        /\ sessions' = invalidateSession(sessions, sessionId, updateFails)
        /\ last' = [op |-> "invalidateSession", sessionId |-> sessionId,
                    result |-> ~updateFails]
        /\ UNCHANGED <<useLocalDb, table, cache, now, nextId, env, secretsCache, calls, challenges>>

RotateCsrfToken ==
    \E sessionId \in SessionIds, response \in Responses,
       getFails \in FailChoices, updateFails \in FailChoices :
        LET r == rotateCsrfToken(sessions, sessionId, response, getFails, updateFails)
        IN  /\ sessions' = r.sessions
            /\ secretsCache' = r.cache
            /\ last' = [op |-> "rotateCsrfToken", sessionId |-> sessionId,
                        result |-> r.result, fetches |-> r.fetches,
                        readFailed |-> (useLocalDb \/ getFails)]
            /\ UNCHANGED <<useLocalDb, table, cache, now, nextId, env, calls, challenges>>

\* Time passes between calls: a short step, or once the rest of a session's
\* life (at most SessionMaxTicks short steps before it and as many after).
SessionTick ==
    \E step \in { SessionTickStep, SESSION_DURATION - SessionTickStep } :
        /\ LET elapsed == now - StartTime
               long == SESSION_DURATION - SessionTickStep
           IN  IF step = SessionTickStep
               THEN (elapsed % long) \div SessionTickStep < SessionMaxTicks
               ELSE elapsed < long
        /\ now' = now + step
        /\ last' = [op |-> "tick"]
        /\ UNCHANGED <<useLocalDb, table, cache, nextId, env, secretsCache, sessions, calls, challenges>>

SessionNext ==
    \/ CreateSession
    \/ InvalidateSession
    \/ RotateCsrfToken
    \/ SessionTick

SessionSpec == SessionInit /\ [][SessionNext]_vars

-----------------------------------------------------------------------------
(* Overlapping getPlaceById calls: one step per stretch between awaits *)

Callers == 1..MaxCallers

\* The versions of place 1 that other writers of the table leave there.
PlaceVersions ==
    { [id |-> 1, name |-> n, location |-> Point(0, 5)] : n \in { "cafe", "bar" } }

\* The largest write number handed out so far.
RECURSIVE MaxWriteSeq(_, _)
MaxWriteSeq(cs, n) ==
    IF n = 0 THEN 0
    ELSE Max(IF Has(cs[n], "writeSeq") THEN cs[n].writeSeq ELSE 0, MaxWriteSeq(cs, n - 1))

\* A continuation that leaves an existing cache entry alone.
cacheAfterGet_FirstWins(c, id, item, t) ==
    IF item # Null /\ c[id] = NoEntry
    THEN [c EXCEPT ![id] = [data |-> item, timestamp |-> t]]
    ELSE c

\* The continuation of getPlaceById after the await: if (item) cache.set(...).
cacheAfterGet(c, id, item, t) ==
    IF item # Null
    THEN [c EXCEPT ![id] = [data |-> item, timestamp |-> t]]
    ELSE c

OverlapInit ==
    /\ useLocalDb \in BOOLEAN
    /\ table \in { << >> } \cup { << v >> : v \in PlaceVersions }
    /\ cache = [id \in Ids |-> NoEntry]
    /\ now = StartTime
    /\ nextId = 1
    /\ last = [op |-> "init"]
    /\ env = [NODE_ENV |-> IF useLocalDb THEN "development" ELSE "production"]
    /\ secretsCache = << >>
    /\ sessions = << >>
    /\ calls = [caller \in Callers |-> [pc |-> "idle"]]
    /\ challenges = << >>

\* getPlaceById(id) up to its await: the cache test, and on a miss the call
\* of dynamodb.getItem.  LocalDatabase.getItem reads the map during the
\* call; a DynamoDB get is answered later.
BeginGet ==
    \E caller \in Callers, id \in Ids :
        /\ calls[caller].pc = "idle"
        /\ calls' = [calls EXCEPT ![caller] =
               IF cacheFresh(cache[id], now)
               THEN [pc |-> "done", id |-> id, gets |-> 0, result |-> cache[id].data]
               ELSE IF useLocalDb
               THEN [pc |-> "served", id |-> id, gets |-> 1, item |-> getItem(table, id)]
               ELSE [pc |-> "issued", id |-> id, gets |-> 1]]
        /\ UNCHANGED <<useLocalDb, table, cache, now, nextId, last, env, secretsCache,
                       sessions, challenges>>

\* DynamoDB answers a get with the item stored at that moment.
ServeGet ==
    \E caller \in Callers :
        /\ calls[caller].pc = "issued"
        /\ calls' = [calls EXCEPT ![caller] =
               [pc |-> "served", id |-> calls[caller].id, gets |-> 1,
                item |-> getItem(table, calls[caller].id)]]
        /\ UNCHANGED <<useLocalDb, table, cache, now, nextId, last, env, secretsCache,
                       sessions, challenges>>

\* getPlaceById after its await: the cache write and the return.
ResumeGet ==
    \E caller \in Callers :
        LET call == calls[caller]
        IN  /\ call.pc = "served"
            /\ cache' = cacheAfterGet(cache, call.id, call.item, now)
            /\ calls' = [calls EXCEPT ![caller] =
                   [pc |-> "done", id |-> call.id, gets |-> 1, item |-> call.item,
                    result |-> call.item,
                    wrote |-> IF call.item # Null
                              THEN [data |-> call.item, timestamp |-> now]
                              ELSE NoEntry,
                    writeSeq |-> IF call.item # Null
                                 THEN MaxWriteSeq(calls, MaxCallers) + 1 ELSE 0]]
            /\ last' = [op |-> "getPlaceById", id |-> call.id, kind |-> "ok",
                        result |-> call.item, gets |-> 1]
            /\ UNCHANGED <<useLocalDb, table, now, nextId, env, secretsCache, sessions,
                           challenges>>

\* Another writer of the table puts a version of the place or deletes it.
StoreChanges ==
    /\ \E c \in Callers : calls[c].pc \in { "issued", "served" }
    /\ \/ \E v \in PlaceVersions : table' = SetItem(table, v)
       \/ table' = deleteItem(table, 1)
    /\ table' # table
    /\ UNCHANGED <<useLocalDb, cache, now, nextId, last, env, secretsCache, sessions,
                   calls, challenges>>

\* Time passes.
OverlapTick ==
    /\ now + TickStep <= StartTime + MaxTime
    /\ now' = now + TickStep
    /\ UNCHANGED <<useLocalDb, table, cache, nextId, last, env, secretsCache, sessions,
                   calls, challenges>>

OverlapNext ==
    \/ BeginGet
    \/ ServeGet
    \/ ResumeGet
    \/ StoreChanges
    \/ OverlapTick

OverlapSpec == OverlapInit /\ [][OverlapNext]_vars

-----------------------------------------------------------------------------
(* middleware/csrfMiddleware.ts, middleware/corsMiddleware.ts,
   middleware/applyMiddleware.ts and the logout handler *)

CSRF_PROTECTED_METHODS == { "POST", "PUT", "DELETE", "PATCH" }

\* The exempt routes, each as the sequence of its characters.
CSRF_EXEMPT_ROUTES ==
    { << "/", "a", "u", "t", "h", "/", "l", "o", "g", "i", "n" >>,
      << "/", "a", "u", "t", "h", "/", "r", "e", "g", "i", "s", "t", "e", "r" >>,
      << "/", "a", "u", "t", "h", "/", "c", "h", "a", "l", "l", "e", "n", "g", "e", "/", "r", "e", "q", "u", "e", "s", "t" >>,
      << "/", "a", "u", "t", "h", "/", "c", "h", "a", "l", "l", "e", "n", "g", "e", "/", "l", "o", "g", "i", "n" >> }

\* The request paths of the model: /auth/logout and /places are protected,
\* /auth/login is exempt.
LogoutPath == << "/", "a", "u", "t", "h", "/", "l", "o", "g", "o", "u", "t" >>

PlacesPath == << "/", "p", "l", "a", "c", "e", "s" >>

LoginPath == << "/", "a", "u", "t", "h", "/", "l", "o", "g", "i", "n" >>

\* No sessionId cookie, no X-CSRF-Token header.
NoCookie == 0

NoToken == Null

\* The sessionId of a cookie that names no session.
UnknownSession == 99

\* A token that was never issued.
ForgedToken == CsrfTokenOf(UnknownSession, 0, "forged")

\* The method is protected and the path begins with no exempt route.
CsrfRequired(event) ==
    /\ event.httpMethod \in CSRF_PROTECTED_METHODS
    /\ ~\E route \in CSRF_EXEMPT_ROUTES : BeginsWith(event.path, route)

\* A response, and the outcome of a middleware or handler: the response,
\* the session table and the secrets cache afterwards, and the functions
\* entered so far, in order.
Response(statusCode, message) ==
    [statusCode |-> statusCode, message |-> message, headers |-> << >>]

Outcome(response, st) ==
    [response |-> response, sessions |-> st.sessions, cache |-> st.cache, trace |-> st.trace]

Entered(st, name) == [st EXCEPT !.trace = Append(st.trace, name)]

\* The handlers of the model: logout, and a handler that answers 200.
logout(req, st0) ==
    LET st == Entered(st0, "handler")
        event == req.event
        sessionId == event.cookie
        valid == validateCsrfToken(st.sessions, sessionId, event.csrfToken,
                                   req.getFails, req.updateFails)
        got == getSessionById(valid.sessions, sessionId, req.getFails, req.updateFails)
    IN  IF sessionId = NoCookie
        THEN Outcome(Response(401, "No active session to logout from"), st)
        ELSE IF event.csrfToken = NoToken
        THEN Outcome(Response(403, "CSRF token required"), st)
        ELSE IF ~valid.result
        THEN Outcome(Response(403, "Invalid CSRF token"),
                     [st EXCEPT !.sessions = valid.sessions])
        ELSE IF got.result = Null
        THEN Outcome(Response(200, "Already logged out"),
                     [st EXCEPT !.sessions = got.sessions])
        ELSE Outcome(Response(200, "Logout successful"),
                     [st EXCEPT !.sessions =
                         invalidateSession(got.sessions, sessionId, req.updateFails)])

runHandler(req, st) ==
    IF req.handler = "logout" THEN logout(req, st)
    ELSE Outcome(Response(200, "OK"), Entered(st, "handler"))

RECURSIVE proceedFrom(_, _, _)

corsMiddleware(req, st0, i) ==
    LET st == Entered(st0, "cors")
        r == proceedFrom(req, i + 1, st)
    IN  IF req.event.httpMethod = "OPTIONS"
        THEN Outcome([Response(200, "") EXCEPT !.headers = [cors |-> TRUE]], st)
        ELSE [r EXCEPT !.response.headers = Spread(r.response.headers, [cors |-> TRUE])]

sessionMiddleware(req, st0, i) ==
    LET st == Entered(st0, "session")
        event == req.event
        sessionId == event.cookie
        got == getSessionById(st.sessions, sessionId, req.getFails, req.updateFails)
        session == got.result
        touched == touchSession(got.sessions, sessionId, req.updateFails)
        rotate == /\ Has(session, "lastRotatedAt")
                  /\ session.lastRotatedAt # 0
                  /\ now - session.lastRotatedAt >= CSRF_ROTATION_INTERVAL
        rotated == rotateCsrfToken(touched, sessionId, req.response,
                                   req.getFails, req.updateFails)
        headers == IF rotate /\ rotated.result # Null
                   THEN [newCsrfToken |-> rotated.result] ELSE << >>
        result == proceedFrom(req, i + 1,
                              IF rotate
                              THEN [st EXCEPT !.sessions = rotated.sessions,
                                              !.cache = rotated.cache]
                              ELSE [st EXCEPT !.sessions = touched])
    IN  IF sessionId = NoCookie
        THEN proceedFrom(req, i + 1, st)
        ELSE IF session = Null \/ ~session.isValid
        THEN Outcome(Response(401, "Invalid or expired session"),
                     [st EXCEPT !.sessions = got.sessions])
        ELSE IF CsrfRequired(event) /\ event.csrfToken = NoToken
        THEN Outcome(Response(403, "CSRF token required"), st)
        ELSE IF CsrfRequired(event) /\ session.csrfToken # event.csrfToken
        THEN Outcome(Response(403, "Invalid CSRF token"), st)
        ELSE [result EXCEPT !.response.headers = Spread(result.response.headers, headers)]

csrfProtection(req, st0, i) ==
    LET st == Entered(st0, "csrf")
        event == req.event
        sessionId == event.cookie
        valid == validateCsrfToken(st.sessions, sessionId, event.csrfToken,
                                   req.getFails, req.updateFails)
    IN  IF ~CsrfRequired(event)
        THEN proceedFrom(req, i + 1, st)
        ELSE IF sessionId = NoCookie
        THEN Outcome(Response(401, "Authentication required - session token missing"), st)
        ELSE IF event.csrfToken = NoToken
        THEN Outcome(Response(403, "CSRF token required"), st)
        ELSE IF ~valid.result
        THEN Outcome(Response(403, "Invalid or expired CSRF token"),
                     [st EXCEPT !.sessions = valid.sessions])
        ELSE proceedFrom(req, i + 1,
                         [st EXCEPT !.sessions =
                             touchSession(valid.sessions, sessionId, req.updateFails)])

\* The proceed function applyMiddleware builds for position i of the list:
\* middlewares[i] called with the proceed function of position i + 1, and
\* past the end of the list the handler.
proceedFrom(req, i, st) ==
    IF i > Len(req.middlewares) THEN runHandler(req, st)
    ELSE IF req.middlewares[i] = "cors" THEN corsMiddleware(req, st, i)
    ELSE IF req.middlewares[i] = "session" THEN sessionMiddleware(req, st, i)
    ELSE csrfProtection(req, st, i)

\* A chain that wraps the first middleware innermost.
applyMiddleware_LastOutermost(req, st) ==
    proceedFrom([req EXCEPT !.middlewares =
                    [k \in 1..Len(req.middlewares) |->
                        req.middlewares[Len(req.middlewares) + 1 - k]]], 1, st)

\* applyMiddleware(handler, ...middlewares)(event).
applyMiddleware(req, st) ==
    proceedFrom(req, 1, st)

\* withSessionAndCsrf(handler): the middleware list.
withSessionAndCsrf == << "cors", "session", "csrf" >>

\* The requests of the request specification.
RequestEvents ==
    { [httpMethod |-> "POST", path |-> LogoutPath],
      [httpMethod |-> "POST", path |-> PlacesPath],
      [httpMethod |-> "GET", path |-> PlacesPath],
      [httpMethod |-> "POST", path |-> LoginPath] }

\* The handler a path is routed to.
HandlerOf(path) == IF path = LogoutPath THEN "logout" ELSE "other"

\* Secrets Manager denies access throughout the request specification, so
\* that the CSRF secret is the fallback.
RequestResponses == { [error |-> "AccessDenied"] }

\* The cookie of a request names no session, a session id that was issued,
\* or an id that never was; its token header is absent, forged, or the token
\* stored for some session.
RequestCookies == { NoCookie, UnknownSession } \cup SessionIds

RequestTokens ==
    { NoToken, ForgedToken }
        \cup { sessions[i].csrfToken : i \in { j \in 1..Len(sessions) : Has(sessions[j], "csrfToken") } }

RequestInit ==
    /\ useLocalDb \in BOOLEAN
    /\ env \in { e \in SessionEnvironments : ~Has(e, "CSRF_SECRET") }
    /\ secretsCache = << >>
    /\ sessions = << >>
    /\ calls = << >>
    /\ challenges = << >>
    /\ now = StartTime
    /\ nextId = 1
    /\ last = [op |-> "init"]
    /\ table = << >>
    /\ cache = [id \in Ids |-> NoEntry]

\* One request through withSessionAndCsrf(handler).
HandleRequest ==
    \E e \in RequestEvents, cookie \in RequestCookies, csrfToken \in RequestTokens,
       response \in RequestResponses,
       getFails \in FailChoices, updateFails \in FailChoices :
        LET event == [httpMethod |-> e.httpMethod, path |-> e.path, cookie |-> cookie,
                      csrfToken |-> csrfToken]
            req == [event |-> event, handler |-> HandlerOf(e.path),
                    middlewares |-> withSessionAndCsrf, response |-> response,
                    getFails |-> getFails, updateFails |-> updateFails]
            r == applyMiddleware(req, [sessions |-> sessions, cache |-> secretsCache,
                                       trace |-> << >>])
        IN  /\ sessions' = r.sessions
            /\ secretsCache' = r.cache
            /\ last' = [op |-> "request", event |-> event,
                        before |-> SessionOf(sessions, cookie),
                        statusCode |-> r.response.statusCode,
                        message |-> r.response.message,
                        trace |-> r.trace]
            /\ UNCHANGED <<useLocalDb, table, cache, now, nextId, env, calls, challenges>>

\* login: a session is created for the next session id.
Login ==
    \E response \in RequestResponses, putFails \in FailChoices :
        LET r == createSession(nextId, response, putFails)
        IN  /\ nextId <= MaxSessions
            /\ nextId' = nextId + 1
            /\ sessions' = r.sessions
            /\ secretsCache' = r.cache
            /\ last' = [op |-> "login", kind |-> r.kind, result |-> r.result]
            /\ UNCHANGED <<useLocalDb, table, cache, now, env, calls, challenges>>

\* Time passes between requests: first the rotation interval, then a
\* session's life.
RequestTick ==
    /\ now < StartTime + SESSION_DURATION
    /\ now' = now + (IF now = StartTime THEN CSRF_ROTATION_INTERVAL ELSE SESSION_DURATION)
    /\ last' = [op |-> "tick"]
    /\ UNCHANGED <<useLocalDb, table, cache, nextId, env, secretsCache, sessions, calls, challenges>>

RequestNext ==
    \/ Login
    \/ HandleRequest
    \/ RequestTick

RequestSpec == RequestInit /\ [][RequestNext]_vars

\* The chain specification: applyMiddleware over every list of distinct
\* middlewares of the repository, for requests that make each of them
\* proceed or answer.
Middlewares == { "cors", "session", "csrf" }

MiddlewareLists ==
    { ms \in UNION { [1..n -> Middlewares] : n \in 0..Cardinality(Middlewares) } :
        \A i, j \in DOMAIN ms : i # j => ms[i] # ms[j] }

ChainEvents == RequestEvents \cup { [httpMethod |-> "OPTIONS", path |-> PlacesPath] }

ChainCookies == { NoCookie } \cup SessionIds

ChainTokens == RequestTokens \ { ForgedToken }

ApplyMiddleware ==
    \E middlewares \in MiddlewareLists, e \in ChainEvents, cookie \in ChainCookies,
       csrfToken \in ChainTokens, response \in RequestResponses :
        LET event == [httpMethod |-> e.httpMethod, path |-> e.path, cookie |-> cookie,
                      csrfToken |-> csrfToken]
            req == [event |-> event, handler |-> HandlerOf(e.path),
                    middlewares |-> middlewares, response |-> response,
                    getFails |-> FALSE, updateFails |-> FALSE]
            r == applyMiddleware(req, [sessions |-> sessions, cache |-> secretsCache,
                                       trace |-> << >>])
        IN  /\ sessions' = r.sessions
            /\ secretsCache' = r.cache
            /\ last' = [op |-> "applyMiddleware", middlewares |-> middlewares,
                        httpMethod |-> e.httpMethod,
                        statusCode |-> r.response.statusCode,
                        trace |-> r.trace]
            /\ UNCHANGED <<useLocalDb, table, cache, now, nextId, env, calls, challenges>>

ChainNext ==
    \/ Login
    \/ ApplyMiddleware

ChainSpec == RequestInit /\ [][ChainNext]_vars

-----------------------------------------------------------------------------
(* services/authChallengeService.ts: createChallenge and validateChallenge,
   whose calls interleave at their awaits *)

ChallengeIds == 1..MaxChallenges

Usernames == { "alice" }

\* Math.floor(Date.now() / 1000)
SecondsOf(t) == t \div 1000

HasChallenge(cs, challengeId) == \E i \in 1..Len(cs) : cs[i].challengeId = challengeId

\* GetItemCommand: the item, or no Item.
ChallengeOf(cs, challengeId) ==
    IF HasChallenge(cs, challengeId)
    THEN cs[CHOOSE i \in 1..Len(cs) : cs[i].challengeId = challengeId]
    ELSE Null

\* DeleteItemCommand: the table without the item; deleting an absent item
\* succeeds.
DeleteChallenge(cs, challengeId) ==
    SelectSeq(cs, LAMBDA item : item.challengeId # challengeId)

ChallengeInit ==
    /\ useLocalDb = FALSE
    /\ env = [NODE_ENV |-> "production"]
    /\ secretsCache = << >>
    /\ sessions = << >>
    /\ calls = [c \in Callers |-> [pc |-> "idle"]]
    /\ challenges = << >>
    /\ now = StartTime
    /\ nextId = 1
    /\ last = [op |-> "init"]
    /\ table = << >>
    /\ cache = [id \in Ids |-> NoEntry]

\* createChallenge(username): PutItemCommand of a new item, or a rejection.
CreateChallenge ==
    \E username \in Usernames, putFails \in BOOLEAN :
        LET item == [challengeId |-> nextId, username |-> username, salt |-> nextId,
                     expiresAt |-> SecondsOf(now) + CHALLENGE_EXPIRY_SECONDS]
        IN  /\ nextId <= MaxChallenges
            /\ nextId' = nextId + 1
            /\ challenges' = IF putFails THEN challenges ELSE Append(challenges, item)
            /\ last' = [op |-> "createChallenge",
                        kind |-> IF putFails THEN "rejected" ELSE "ok"]
            /\ UNCHANGED <<useLocalDb, table, cache, now, env, secretsCache, sessions, calls>>

\* validateChallenge(challengeId) up to its first await: the get is issued.
BeginValidate ==
    \E c \in Callers, challengeId \in ChallengeIds :
        /\ calls[c].pc = "idle"
        /\ calls' = [calls EXCEPT ![c] = [pc |-> "get", challengeId |-> challengeId]]
        /\ last' = [op |-> "validateChallenge", caller |-> c]
        /\ UNCHANGED <<useLocalDb, table, cache, now, nextId, env, secretsCache, sessions, challenges>>

\* The table answers a pending get, or rejects it.
ServeChallengeGet ==
    \E c \in Callers, getFails \in BOOLEAN :
        /\ calls[c].pc = "get"
        /\ calls' = [calls EXCEPT ![c] =
                        [pc |-> "got", challengeId |-> calls[c].challengeId,
                         rejected |-> getFails,
                         item |-> ChallengeOf(challenges, calls[c].challengeId)]]
        /\ last' = [op |-> "get", caller |-> c]
        /\ UNCHANGED <<useLocalDb, table, cache, now, nextId, env, secretsCache, sessions, challenges>>

\* The call continues after the get: null for a rejection or no item;
\* otherwise a delete is issued, for an expired or for an accepted item.
ResumeValidate ==
    \E c \in Callers :
        LET call == calls[c]
        IN  /\ call.pc = "got"
            /\ calls' = [calls EXCEPT ![c] =
                   IF call.rejected \/ call.item = Null
                   THEN [pc |-> "done", challengeId |-> call.challengeId, result |-> Null]
                   ELSE [pc |-> "delete", challengeId |-> call.challengeId,
                         item |-> call.item,
                         expired |-> (call.item.expiresAt < SecondsOf(now))]]
            /\ last' = [op |-> "resume", caller |-> c]
            /\ UNCHANGED <<useLocalDb, table, cache, now, nextId, env, secretsCache, sessions, challenges>>

\* The table serves a pending delete and the call returns: null if the
\* delete was rejected or the item had expired, the record otherwise.
ServeChallengeDelete ==
    \E c \in Callers, deleteFails \in BOOLEAN :
        LET call == calls[c]
        IN  /\ call.pc = "delete"
            /\ challenges' = IF deleteFails THEN challenges
                             ELSE DeleteChallenge(challenges, call.challengeId)
            /\ calls' = [calls EXCEPT ![c] =
                   [pc |-> "done", challengeId |-> call.challengeId,
                    result |-> IF deleteFails \/ call.expired THEN Null
                               ELSE [username |-> call.item.username,
                                     salt |-> call.item.salt]]]
            /\ last' = [op |-> "delete", caller |-> c]
            /\ UNCHANGED <<useLocalDb, table, cache, now, nextId, env, secretsCache, sessions>>

ChallengeTick ==
    /\ now + ChallengeTickStep <= StartTime + ChallengeMaxTicks * ChallengeTickStep
    /\ now' = now + ChallengeTickStep
    /\ last' = [op |-> "tick"]
    /\ UNCHANGED <<useLocalDb, table, cache, nextId, env, secretsCache, sessions, calls, challenges>>

ChallengeNext ==
    \/ CreateChallenge
    \/ BeginValidate
    \/ ServeChallengeGet
    \/ ResumeValidate
    \/ ServeChallengeDelete
    \/ ChallengeTick

ChallengeSpec == ChallengeInit /\ [][ChallengeNext]_vars

-----------------------------------------------------------------------------
(* part_004 (session service): the life of a session under getSessionById,
   touchSession, rotateCsrfToken, invalidateSession and extendSession, whose
   update is served by the table some time after the call computed it *)

\* The session ids createSession has generated so far.
IssuedSessions == { sessionId \in SessionIds : sessionId < nextId }

LifetimeInit ==
    /\ useLocalDb \in BOOLEAN
    /\ env \in { e \in SessionEnvironments : ~Has(e, "CSRF_SECRET") }
    /\ secretsCache = << >>
    /\ sessions = << >>
    /\ calls = [c \in Callers |-> [pc |-> "idle"]]
    /\ challenges = << >>
    /\ now = StartTime
    /\ nextId = 1
    /\ last = [op |-> "init"]
    /\ table = << >>
    /\ cache = [id \in Ids |-> NoEntry]

GetSessionById ==
    \E sessionId \in IssuedSessions, getFails \in FailChoices, updateFails \in FailChoices :
        LET got == getSessionById(sessions, sessionId, getFails, updateFails)
        IN  /\ sessions' = got.sessions
            /\ last' = [op |-> "getSessionById", sessionId |-> sessionId,
                        result |-> got.result]
            /\ UNCHANGED <<useLocalDb, table, cache, now, nextId, env, secretsCache, calls, challenges>>

TouchSession ==
    \E sessionId \in IssuedSessions, updateFails \in FailChoices :
        /\ sessions' = touchSession(sessions, sessionId, updateFails)
        /\ last' = [op |-> "touchSession", sessionId |-> sessionId,
                    result |-> ~updateFails]
        /\ UNCHANGED <<useLocalDb, table, cache, now, nextId, env, secretsCache, calls, challenges>>

\* rotateCsrfToken while Secrets Manager denies access.
RotateWithFallbackSecret ==
    \E sessionId \in IssuedSessions, response \in RequestResponses,
       getFails \in FailChoices, updateFails \in FailChoices :
        LET r == rotateCsrfToken(sessions, sessionId, response, getFails, updateFails)
        IN  /\ sessions' = r.sessions
            /\ secretsCache' = r.cache
            /\ last' = [op |-> "rotateCsrfToken", sessionId |-> sessionId,
                        result |-> r.result]
            /\ UNCHANGED <<useLocalDb, table, cache, now, nextId, env, calls, challenges>>

InvalidateIssued ==
    \E sessionId \in IssuedSessions, updateFails \in FailChoices :
        /\ sessions' = invalidateSession(sessions, sessionId, updateFails)
        /\ last' = [op |-> "invalidateSession", sessionId |-> sessionId,
                    result |-> ~updateFails]
        /\ UNCHANGED <<useLocalDb, table, cache, now, nextId, env, secretsCache, calls, challenges>>

\* extendSession(sessionId) up to the await of its update: the session is
\* read and tested, and for a live session the update is issued with the
\* expiry computed now.
BeginExtend ==
    \E c \in Callers, sessionId \in IssuedSessions,
       getFails \in FailChoices, updateFails \in FailChoices :
        LET got == getSessionById(sessions, sessionId, getFails, updateFails)
        IN  /\ calls[c].pc = "idle"
            /\ sessions' = got.sessions
            /\ calls' = [calls EXCEPT ![c] =
                   IF got.result = Null \/ ~got.result.isValid
                   THEN [pc |-> "idle"]
                   ELSE [pc |-> "update", sessionId |-> sessionId,
                         values |-> [expiresAt |-> now + SESSION_DURATION,
                                     lastActivityAt |-> now]]]
            /\ last' = [op |-> "extendSession", caller |-> c, sessionId |-> sessionId,
                        result |-> IF got.result = Null \/ ~got.result.isValid
                                   THEN "false" ELSE "pending"]
            /\ UNCHANGED <<useLocalDb, table, cache, now, nextId, env, secretsCache, challenges>>

\* The table serves the update of an extendSession call, or rejects it, and
\* the call returns.
ServeExtendUpdate ==
    \E c \in Callers, updateFails \in FailChoices :
        LET call == calls[c]
        IN  /\ call.pc = "update"
            /\ sessions' = IF useLocalDb \/ updateFails THEN sessions
                           ELSE UpdateSession(sessions, call.sessionId, call.values)
            /\ calls' = [calls EXCEPT ![c] = [pc |-> "idle"]]
            /\ last' = [op |-> "extendSession", caller |-> c, sessionId |-> call.sessionId,
                        result |-> IF updateFails THEN "false" ELSE "true"]
            /\ UNCHANGED <<useLocalDb, table, cache, now, nextId, env, secretsCache, challenges>>

LifetimeInvalidate ==
    /\ InvalidateSession

LifetimeNext ==
    \/ Login
    \/ GetSessionById
    \/ TouchSession
    \/ RotateWithFallbackSecret
    \/ InvalidateIssued
    \/ BeginExtend
    \/ ServeExtendUpdate
    \/ RequestTick

LifetimeSpec == LifetimeInit /\ [][LifetimeNext]_vars

-----------------------------------------------------------------------------
(* The place service on the local in-memory store, with places that move
   to another cell *)

\* placeData of an update that changes the location.
MoveData == { [location |-> l] : l \in Locations \cup FarLocations }

LocalStoreInit ==
    /\ useLocalDb = TRUE
    /\ table = InitialTable
    /\ cache = [id \in Ids |-> NoEntry]
    /\ now = 0
    /\ nextId = 1
    /\ last = [op |-> "init"]
    /\ env = [NODE_ENV |-> "development"]
    /\ secretsCache = << >>
    /\ sessions = << >>
    /\ calls = << >>
    /\ challenges = << >>

MovePlace ==
    \E id \in Ids, placeData \in MoveData :
        LET r == updatePlace(id, placeData, FALSE, FALSE)
        IN  /\ table' = r.table
            /\ cache' = r.cache
            /\ last' = [op |-> "updatePlace", id |-> id, data |-> placeData,
                        kind |-> r.kind, result |-> r.result, gets |-> r.gets,
                        written |-> r.written]
            /\ UNCHANGED <<useLocalDb, now, nextId, env, secretsCache, sessions, calls, challenges>>

LocalStoreNext ==
    \/ CreatePlace
    \/ MovePlace
    \/ GetPlaceById
    \/ Tick

LocalStoreSpec == LocalStoreInit /\ [][LocalStoreNext]_vars

-----------------------------------------------------------------------------
(* Properties *)

\* The step is a call of `op`.
Called(op) == last'.op = op

\* C1: a getPlaceById(id) issued while the cache holds an entry for id that
\* is younger than the TTL returns the cached place and issues no storage
\* get; any other getPlaceById issues exactly one.  So of two consecutive
\* calls within the TTL window only the first reaches the storage.
C1_CachedReadIssuesNoGet ==
    [][ \A id \in Ids :
          (Called("getPlaceById") /\ last'.id = id) =>
              IF cache[id] # NoEntry /\ now - cache[id].timestamp < CACHE_TTL
              THEN /\ last'.kind = "ok"
                   /\ last'.result = cache[id].data
                   /\ last'.gets = 0
                   /\ cache' = cache
              ELSE last'.gets = 1 ]_vars

\* C1, its case: a read answered from an entry cached some time ago.
C1_Witness ==
    /\ last.op = "getPlaceById"
    /\ last.kind = "ok"
    /\ last.gets = 0
    /\ cache[last.id] # NoEntry
    /\ now - cache[last.id].timestamp > 0
    /\ last.result = cache[last.id].data

\* C2: the getPlaceById(id) that directly follows a successful
\* updatePlace(id, data) returns the updated place, and the one that directly
\* follows a successful deletePlace(id) returns null.
C2_ReadAfterWriteIsFresh ==
    [][ (/\ Called("getPlaceById")
         /\ last'.kind = "ok"
         /\ last.op \in {"updatePlace", "deletePlace"}
         /\ last.kind = "ok"
         /\ last.id = last'.id)
        => /\ (last.op = "updatePlace" /\ last.result # Null /\ last.written.id = last.id)
                => last'.result = last.result
           /\ (last.op = "deletePlace" /\ last.result = TRUE)
                => last'.result = Null ]_vars

\* C3: a successful getPlacesNearby(lat, lng, radiusKm) returns every stored
\* place that has a location at a distance of at most radiusKm.
C3_NoNearbyPlaceMissed ==
    (last.op = "getPlacesNearby" /\ last.kind = "ok") =>
        \A i \in 1..Len(table) :
            (/\ Has(table[i], "location")
             /\ calculateDistance(last.lat, last.lng, table[i].location.latitude,
                                  table[i].location.longitude) <= last.radiusKm * 100)
            => \E k \in 1..Len(last.result) : last.result[k].id = table[i].id

\* C4: every place getPlacesNearby returns has a location, carries the
\* distance of that location from the search centre, and that distance is at
\* most radiusKm.
C4_ResultsWithinRadius ==
    (last.op = "getPlacesNearby" /\ last.kind = "ok") =>
        \A k \in 1..Len(last.result) :
            LET place == last.result[k]
            IN  /\ Has(place, "location")
                /\ Has(place, "distance")
                /\ place.distance =
                       calculateDistance(last.lat, last.lng, place.location.latitude,
                                         place.location.longitude)
                /\ place.distance <= last.radiusKm * 100

\* C4, its case: a search that returned a place while the table held a place
\* without location and a place farther away than the radius.
C4_Witness ==
    /\ last.op = "getPlacesNearby"
    /\ last.kind = "ok"
    /\ Len(last.result) > 0
    /\ \E i \in 1..Len(table) : ~Has(table[i], "location")
    /\ \E i \in 1..Len(table) :
          /\ Has(table[i], "location")
          /\ calculateDistance(last.lat, last.lng, table[i].location.latitude,
                               table[i].location.longitude) > last.radiusKm * 100

\* C5: the places getPlacesNearby returns are in non-decreasing order of
\* distance.
C5_ResultsSortedByDistance ==
    (last.op = "getPlacesNearby" /\ last.kind = "ok") =>
        \A k \in 1..(Len(last.result) - 1) :
            last.result[k].distance <= last.result[k + 1].distance

\* C5, its case: a result in which a place stored later comes before a place
\* stored earlier, the lookups having returned them in table order.
C5_Witness ==
    /\ last.op = "getPlacesNearby"
    /\ last.kind = "ok"
    /\ \E j, k \in 1..Len(last.result) :
          /\ j < k
          /\ last.result[j].distance < last.result[k].distance
          /\ \E a, b \in 1..Len(table) :
                a < b /\ table[a].id = last.result[k].id /\ table[b].id = last.result[j].id

\* C6: when the lookup of at least one candidate cell rejects,
\* getPlacesNearby rejects with 'Failed to fetch nearby places: ' followed by
\* the cause, and delivers no list.
C6_FailedLookupFailsSearch ==
    (last.op = "getPlacesNearby" /\ last.failed # {}) =>
        /\ last.kind = "rejected"
        /\ DOMAIN last.result = {"message"}
        /\ Len(last.result.message) > 1
        /\ Head(last.result.message) = "Failed to fetch nearby places: "

\* C6, its case: one lookup rejected while another one had a place to return.
C6_Witness ==
    /\ last.op = "getPlacesNearby"
    /\ last.failed = {1}
    /\ last.kind = "rejected"
    /\ \E i \in 1..Len(table) :
          /\ Has(table[i], "geohash")
          /\ BeginsWith(table[i].geohash,
                        calculateNeighborGeohashes(
                            encodeGeohash(last.lat, last.lng, DEFAULT_PRECISION),
                            calculateBoundingBox(last.lat, last.lng, last.radiusKm))[3])

\* C7: no place id occurs twice in the sequence getPlacesNearby returns.
C7_NoDuplicateResults ==
    (last.op = "getPlacesNearby" /\ last.kind = "ok") =>
        \A j, k \in 1..Len(last.result) :
            j # k => last.result[j].id # last.result[k].id

\* C8: the place a successful createPlace or updatePlace writes to the store
\* has the geohash of its location at the default precision.
C8_StoredGeohashMatchesLocation ==
    (last.op \in {"createPlace", "updatePlace"} /\ last.kind = "ok" /\ last.written # Null) =>
        /\ Has(last.written, "geohash")
        /\ last.written.geohash =
               geohashEncode(last.written.location.latitude,
                             last.written.location.longitude, DEFAULT_PRECISION)

\* C9: the place a successful updatePlace(id, data) writes to the store has
\* the identifier id.
C9_UpdateKeepsId ==
    (last.op = "updatePlace" /\ last.kind = "ok" /\ last.written # Null) =>
        last.written.id = last.id

\* C10: getPlacesNearby leaves the table as it is.
C10_SearchLeavesStoreUnchanged ==
    [][ Called("getPlacesNearby") => table' = table ]_vars

\* C11: a getPlaceById(id) that finds a cache entry for id is answered from
\* it, with no storage get, exactly while now - timestamp <= CACHE_TTL; a
\* storage get is issued only once now - timestamp > CACHE_TTL.
C11_EntryServedThroughTTL ==
    [][ \A id \in Ids :
          (Called("getPlaceById") /\ last'.id = id /\ cache[id] # NoEntry) =>
              (last'.gets = 0 <=> now - cache[id].timestamp <= CACHE_TTL) ]_vars

C13_BadRadiusRejected ==
    (last.op = "getPlacesNearby" /\ last.radiusKm <= 0) =>
        /\ last.kind = "rejected"
        /\ last.lookups = 0

\* The span of a bounding box: max(maxLat - minLat, maxLng - minLng).
SpanOf(box) == Max(box.maxLat - box.minLat, box.maxLng - box.minLng)

\* C14: calculateOptimalPrecision returns 3 for a span >= 10 degrees, 4 for
\* a span in (2.5, 10), 5 in (0.5, 2.5], 6 in (0.05, 0.5] and 7 for a span
\* <= 0.05; the result is in 3..7, and of two boxes the one with the larger
\* span never gets the larger precision.
C14_PrecisionTable ==
    [][ Called("calculateOptimalPrecision") =>
          LET span == SpanOf(last'.boundingBox)
          IN  /\ last'.result \in 3..7
              /\ last'.result = 3 <=> span >= 10000
              /\ last'.result = 4 <=> (2500 < span /\ span < 10000)
              /\ last'.result = 5 <=> (500 < span /\ span <= 2500)
              /\ last'.result = 6 <=> (50 < span /\ span <= 500)
              /\ last'.result = 7 <=> span <= 50
              /\ (last.op = "calculateOptimalPrecision"
                    /\ SpanOf(last.boundingBox) <= span)
                  => last'.result <= last.result ]_vars

\* C14, its case: a box whose span is exactly 0.5 degrees on one side and
\* smaller on the other gets precision 6.
C14_Witness ==
    /\ last.op = "calculateOptimalPrecision"
    /\ SpanOf(last.boundingBox) = 500
    /\ last.boundingBox.maxLat - last.boundingBox.minLat # 500
    /\ last.result = 6

\* C15: encodeGeohash(lat, lng, p), in either variant, returns the reference
\* geohash of (lat, lng): p base-32 characters, every bit chosen by the
\* half-range that contains the coordinate.
C15_EncodeIsReferenceGeohash ==
    last.op = "encodeGeohash" =>
        /\ Len(last.result) = last.precision
        /\ last.result = EncodeLoop(last.lat + LatRange \div 2, last.lng + LngRange \div 2,
                                    0, 0, 0, << >>, last.precision)

\* The fields updatePlace derives or merges rather than copies.
DerivedFields(data) ==
    { "amenities", "attributes", "geohashPrefix" }
        \cup (IF Has(data, "location") THEN { "geohash" } ELSE {})

\* C16: an updatePlace(id, data) that succeeds on a place that is in the
\* store writes and returns one place; in it every top-level field named in
\* data has the data's value, amenities and attributes are the data's spread
\* key by key over the stored ones, and every other field has the value it
\* had in the store (the derived geohash and geohashPrefix excepted).
C16_UpdateMergesOverStoredPlace ==
    [][ (Called("updatePlace") /\ last'.kind = "ok" /\ last'.result # Null
            /\ HasItem(table, last'.id)) =>
          LET stored == getItem(table, last'.id)
              data == last'.data
              new == last'.written
          IN  /\ last'.result = new
              /\ \A f \in DOMAIN data \ DerivedFields(data) : new[f] = data[f]
              /\ new.amenities = Spread(FieldsOf(stored, "amenities"),
                                        FieldsOf(data, "amenities"))
              /\ new.attributes = Spread(FieldsOf(stored, "attributes"),
                                         FieldsOf(data, "attributes"))
              /\ \A f \in DOMAIN stored \ (DOMAIN data \cup DerivedFields(data)) :
                     Has(new, f) /\ new[f] = stored[f] ]_vars

\* C17: a deletePlace(id) that resolves returns true exactly when a place
\* with that id was in the store when it was called; if true the place is
\* gone afterwards, if false the store is unchanged; and a deletePlace(id)
\* that directly follows a deletePlace(id) that returned true returns false.
C17_DeleteReportsStoredPlace ==
    [][ (Called("deletePlace") /\ last'.kind = "ok") =>
          /\ last'.result = HasItem(table, last'.id)
          /\ last'.result => ~HasItem(table', last'.id)
          /\ ~last'.result => table' = table
          /\ (last.op = "deletePlace" /\ last.id = last'.id /\ last.kind = "ok"
                /\ last.result)
              => ~last'.result ]_vars

\* C18: in production a getSecret(name, key) sends a request to Secrets
\* Manager exactly when the cache has no entry younger than 15 minutes under
\* name:key (so on the first call, after the TTL and after a clear); with
\* such an entry it returns the entry's value, sends nothing and leaves the
\* cache as it is.
C18_RemoteOnlyWithoutLiveEntry ==
    [][ (Called("getSecret") /\ env.NODE_ENV = "production") =>
          LET k == cacheKeyOf(last'.secretName, last'.secretKey)
              live == /\ k \in DOMAIN secretsCache
                      /\ now - secretsCache[k].timestamp < SECRETS_CACHE_TTL
          IN  /\ last'.remoteCalls = (IF live THEN 0 ELSE 1)
              /\ live => /\ last'.kind = "ok"
                          /\ last'.result = secretsCache[k].value
                          /\ secretsCache' = secretsCache ]_vars

\* C18, its case: a call served from an entry cached earlier, no request sent.
C18_Witness ==
    /\ last.op = "getSecret"
    /\ env.NODE_ENV = "production"
    /\ last.remoteCalls = 0
    /\ cacheKeyOf(last.secretName, last.secretKey) \in DOMAIN secretsCache
    /\ now > secretsCache[cacheKeyOf(last.secretName, last.secretKey)].timestamp
    /\ last.result = "s1"

\* C19: in production, when the request to Secrets Manager fails,
\* getSecret(name, key) returns process.env[key] if that variable is set
\* (to a non-empty value) and otherwise rejects with 'Failed to retrieve
\* secret: <message>'; the cache is left unchanged, with no live entry under
\* name:key, and a call for the same name and key that follows directly
\* sends a request again.
C19_FailedFetchFallsBackUncached ==
    [][ (Called("getSecret") /\ env.NODE_ENV = "production") =>
          /\ (last'.remoteCalls = 1 /\ Has(last'.response, "error")) =>
                /\ IF last'.secretKey # NoKey /\ Has(env, last'.secretKey)
                                              /\ env[last'.secretKey] # ""
                   THEN last'.kind = "ok" /\ last'.result = env[last'.secretKey]
                   ELSE /\ last'.kind = "rejected"
                        /\ last'.result =
                               "Failed to retrieve secret: " \o last'.response.error
                /\ secretsCache' = secretsCache
                /\ LET k == cacheKeyOf(last'.secretName, last'.secretKey)
                   IN  ~(/\ k \in DOMAIN secretsCache'
                         /\ now - secretsCache'[k].timestamp < SECRETS_CACHE_TTL)
          /\ (last.op = "getSecret" /\ last.remoteCalls = 1 /\ Has(last.response, "error")
                /\ last.secretName = last'.secretName
                /\ last.secretKey = last'.secretKey)
              => last'.remoteCalls = 1 ]_vars

\* C19, its case: a failed request answered from the environment variable
\* while the cache holds the entry of another key, which is left as it is.
C19_Witness ==
    /\ last.op = "getSecret"
    /\ env.NODE_ENV = "production"
    /\ last.remoteCalls = 1
    /\ Has(last.response, "error")
    /\ last.kind = "ok"
    /\ last.result = "from-env"
    /\ secretsCache # << >>

\* The csrfToken and lastRotatedAt stored for a session, Null for each that
\* is not stored.
StoredToken(ss, sessionId) ==
    LET session == SessionOf(ss, sessionId)
    IN  << IF session # Null /\ Has(session, "csrfToken") THEN session.csrfToken ELSE Null,
           IF session # Null /\ Has(session, "lastRotatedAt")
           THEN [at |-> session.lastRotatedAt] ELSE Null >>

\* C20: rotateCsrfToken(sessionId) changes the stored csrfToken or
\* lastRotatedAt only if the session is stored, valid and unexpired and
\* now - lastRotatedAt >= 15 minutes; for a missing, invalid or expired
\* session it returns null, does not call getCsrfSecret and writes no token;
\* for a usable session rotated less than 15 minutes ago (and read without a
\* storage error) it returns the stored token and writes nothing.
C20_RotationOnlyWhenDue ==
    [][ Called("rotateCsrfToken") =>
          LET id == last'.sessionId
              session == SessionOf(sessions, id)
              usable == session # Null /\ ~ExpiredOrInvalid(session, now)
              due == now - session.lastRotatedAt >= CSRF_ROTATION_INTERVAL
          IN  /\ StoredToken(sessions', id) # StoredToken(sessions, id) => usable /\ due
              /\ ~usable => /\ last'.result = Null
                             /\ last'.fetches = 0
                             /\ secretsCache' = secretsCache
                             /\ StoredToken(sessions', id) = StoredToken(sessions, id)
              /\ (usable /\ ~due /\ ~last'.readFailed) =>
                    /\ last'.result = session.csrfToken
                    /\ last'.fetches = 0
                    /\ sessions' = sessions
                    /\ secretsCache' = secretsCache ]_vars

\* C20, its case: a rotation that was due wrote the token it returned, on a
\* session created earlier.
C20_Witness ==
    /\ last.op = "rotateCsrfToken"
    /\ last.result # Null
    /\ last.fetches = 1
    /\ HasSession(sessions, last.sessionId)
    /\ SessionOf(sessions, last.sessionId).csrfToken = last.result
    /\ SessionOf(sessions, last.sessionId).lastRotatedAt = now
    /\ SessionOf(sessions, last.sessionId).expiresAt < now + SESSION_DURATION

\* The callers that have finished a getPlaceById(id) that missed the cache
\* and wrote an entry.
Writers(id) ==
    { c \in Callers : calls[c].pc = "done" /\ calls[c].id = id /\ calls[c].gets = 1
                        /\ calls[c].writeSeq > 0 }

\* C21: every getPlaceById(id) that missed the cache issued exactly one get
\* and returned the item that get was answered with; once no call is in
\* flight the cache entry of id is the one written by the caller whose
\* cache write came last.
C21_EachCallerFetchesLastWriterWins ==
    /\ \A c \in Callers :
          (calls[c].pc = "done" /\ calls[c].gets # 0) =>
              calls[c].gets = 1 /\ calls[c].result = calls[c].item
    /\ \A id \in Ids :
          ((\A c \in Callers : calls[c].pc \in { "idle", "done" }) /\ Writers(id) # {}) =>
              \E w \in Writers(id) :
                  /\ \A o \in Writers(id) : calls[o].writeSeq <= calls[w].writeSeq
                  /\ cache[id] = calls[w].wrote

\* C21, its case: two calls missed the cache while both were in flight,
\* were answered with different items, and both have written and returned.
C21_Witness ==
    /\ \A c \in Callers : calls[c].pc = "done" /\ calls[c].gets = 1 /\ calls[c].writeSeq > 0
    /\ calls[1].result # calls[2].result
    /\ calls[1].wrote.timestamp = calls[2].wrote.timestamp

\* C22: the prefixes one search looks up, calculateNeighborGeohashes(center,
\* box), are at most 9, the centre cell at the selected precision is among
\* them, none occurs twice, and each has the selected precision as length.
C22_OneLookupPerDistinctCell ==
    last.op = "calculateNeighborGeohashes" =>
        LET prefixes == last.result
            precision == calculateOptimalPrecision(last.boundingBox)
        IN  /\ Len(prefixes) <= 9
            /\ \E j \in 1..Len(prefixes) :
                   prefixes[j] = Substring0(last.centerGeohash, precision)
            /\ \A j, k \in 1..Len(prefixes) : j # k => prefixes[j] # prefixes[k]
            /\ \A j \in 1..Len(prefixes) : Len(prefixes[j]) = precision

\* The top-level fields an update's data determines: the ones it names, and
\* geohash if it names location.
FieldsSetBy(data) ==
    (DOMAIN data \ { "amenities", "attributes" })
        \cup (IF Has(data, "location") THEN { "geohash" } ELSE {})

\* The stored place carries what the data of an update asked for.
Reflects(place, data) ==
    /\ \A f \in DOMAIN data \ { "amenities", "attributes" } :
          Has(place, f) /\ place[f] = data[f]
    /\ \A g \in { "amenities", "attributes" } :
          Has(data, g) =>
              \A k \in DOMAIN data[g] :
                  Has(place, g) /\ Has(place[g], k) /\ place[g][k] = data[g][k]

\* C23: when updatePlace(id, A) has succeeded and the next call,
\* updatePlace(id, B) on fields disjoint from A's, succeeds too, the stored
\* place reflects both A and B.
C23_SequentialUpdatesKept ==
    [][ ( /\ Called("updatePlace") /\ last'.kind = "ok" /\ last'.result # Null
          /\ last.op = "updatePlace" /\ last.kind = "ok" /\ last.result # Null
          /\ last.id = last'.id
          /\ ~Has(last.data, "id") /\ ~Has(last'.data, "id")
          /\ FieldsSetBy(last.data) \cap FieldsSetBy(last'.data) = {}
          /\ DOMAIN last.data \cap DOMAIN last'.data = {} ) =>
            /\ HasItem(table', last'.id)
            /\ Reflects(getItem(table', last'.id), last'.data)
            /\ Reflects(getItem(table', last'.id), last.data) ]_vars

\* The session the cookie of the last request named was, when the request
\* arrived, stored, valid and unexpired.
CookieNamesLiveSession ==
    /\ last.before # Null
    /\ Has(last.before, "isValid") /\ last.before.isValid
    /\ Has(last.before, "expiresAt") /\ last.before.expiresAt >= now

\* The token header of the last request is the token stored for that
\* session when the request arrived.
CarriesStoredToken ==
    /\ last.before # Null
    /\ Has(last.before, "csrfToken")
    /\ last.event.csrfToken = last.before.csrfToken

\* C24: a request with a protected method on a non-exempt route through
\* withSessionAndCsrf that carries the cookie of a valid session and the
\* token stored for it when the request arrives is never answered 403, also
\* when the token is due for rotation during that request.
C24_StoredTokenNeverRefused ==
    ( /\ last.op = "request"
      /\ CsrfRequired(last.event)
      /\ CookieNamesLiveSession
      /\ CarriesStoredToken )
        => last.statusCode # 403

HandlerRan == \E i \in 1..Len(last.trace) : last.trace[i] = "handler"

\* C26: for a request with a protected method on a path that begins with no
\* exempt route, the handler wrapped by withSessionAndCsrf runs only if the
\* cookie names a stored, valid, unexpired session and the token header
\* equals that session's stored token; otherwise the response is 401 (no
\* such session) or 403 (missing or wrong token) and the handler does not run.
C26_HandlerOnlyBehindSessionAndToken ==
    ( last.op = "request" /\ CsrfRequired(last.event) )
        => /\ ~(CookieNamesLiveSession /\ CarriesStoredToken)
                => ~HandlerRan /\ last.statusCode \in { 401, 403 }
           /\ ~CookieNamesLiveSession => last.statusCode = 401

\* A protected request reached the handler, with a live session and its token.
C26_Witness ==
    /\ last.op = "request"
    /\ CsrfRequired(last.event)
    /\ CookieNamesLiveSession
    /\ CarriesStoredToken
    /\ HandlerRan

\* C30: logout answers 200 'Logout successful' only if the session has been
\* marked invalid in the session store; when the update fails or has no
\* effect it does not report success.
C30_LogoutSuccessMeansInvalidated ==
    ( /\ last.op = "request"
      /\ last.statusCode = 200
      /\ last.message = "Logout successful" )
        => LET session == SessionOf(sessions, last.event.cookie)
           IN  /\ session # Null
               /\ Has(session, "isValid")
               /\ ~session.isValid

\* C28: applyMiddleware(handler, m1, ..., mn) enters the middlewares in list
\* order, m1 first, each at most once, and the handler at most once and only
\* after every middleware; nothing after a middleware that answered without
\* calling proceed is entered.  What was entered is a prefix of
\* m1, ..., mn, handler.
C28_ChainRunsInListOrder ==
    last.op = "applyMiddleware"
        => /\ Len(last.trace) >= 1
           /\ Len(last.trace) <= Len(last.middlewares) + 1
           /\ \A i \in 1..Len(last.trace) :
                  last.trace[i] = Append(last.middlewares, "handler")[i]

\* The three middlewares of withSessionAndCsrf all proceeded on a POST and
\* the handler ran after them.
C28_Witness ==
    /\ last.op = "applyMiddleware"
    /\ last.middlewares = withSessionAndCsrf
    /\ last.httpMethod = "POST"
    /\ last.trace = Append(last.middlewares, "handler")

\* The calls of validateChallenge for a challenge that returned its record.
Accepted(challengeId) ==
    { c \in Callers :
        /\ calls[c].pc = "done"
        /\ calls[c].challengeId = challengeId
        /\ calls[c].result # Null }

\* C25: a challenge created by createChallenge is accepted at most once:
\* over any interleaving of validateChallenge calls for it, at most one
\* returns the record and every other returns null.
C25_ChallengeAcceptedAtMostOnce ==
    \A challengeId \in ChallengeIds : Cardinality(Accepted(challengeId)) <= 1

\* The stored session sessionId is invalid or has expired.
Dead(sessionId) ==
    /\ HasSession(sessions, sessionId)
    /\ ExpiredOrInvalid(SessionOf(sessions, sessionId), now)

\* C27: getSessionById never returns a session whose isValid is false or
\* whose expiresAt is earlier than now, and a session that is invalid or has
\* expired is not returned by getSessionById after any further step of
\* touchSession, extendSession, rotateCsrfToken or the clock.
C27_DeadSessionsStayDead ==
    [][ /\ ( ( last.op = "getSessionById" /\ last.result # Null )
               => ( last.result.isValid /\ last.result.expiresAt >= now ) )'
        /\ \A sessionId \in SessionIds :
               Dead(sessionId)
                   => ( getSessionById(sessions, sessionId, FALSE, FALSE).result = Null )'
      ]_vars

\* C29: in the local in-memory store every stored place with a location has
\* a geohashPrefix equal to the first 4 characters of its geohash, after any
\* sequence of createPlace and updatePlace calls, updates that change the
\* location included.
C29_LocalPrefixMatchesGeohash ==
    useLocalDb
        => \A i \in 1..Len(table) :
               Has(table[i], "location")
                   => /\ Has(table[i], "geohash")
                      /\ Has(table[i], "geohashPrefix")
                      /\ table[i].geohashPrefix = Substring0(table[i].geohash, PREFIX_LENGTH)

====
